---- MODULE Spec2Model ----
(***************************************************************************)
(* Call-control middleware (Najim/middleware).                             *)
(*                                                                         *)
(* Part 1: the One-X call orchestrator of api/onex copy.js                 *)
(*   - GET /startcall  (specification Spec; SpecLive adds fairness)        *)
(*   - GET /release, /hold, /unhold, /mute, /unmute                        *)
(*     (specification SpecControl)                                         *)
(*                                                                         *)
(* Part 2: the recording archive of api/acr.js                             *)
(*   - GET /find, /replayByUcid, /searchByNumber (specification SpecAcr)   *)
(*   - ensureLocalWav and the sweep of the media cache                     *)
(*     (specification SpecCache)                                           *)
(*   - streamFile on its own (specification SpecStream)                    *)
(*   - one timed run of cleanupOldMedia (specification SpecSweep)          *)
(*   - any one request of either part (specification SpecAll)              *)
(*                                                                         *)
(* One request is followed from its arrival to the end of its handler.     *)
(* Every await of the handler is a suspension point and a separate step;   *)
(* the replies of the remote voice endpoint, of the UCID monitor and of    *)
(* the database are chosen nondeterministically.                           *)
(***************************************************************************)
EXTENDS Integers, Sequences, FiniteSets, TLC

VARIABLES
    \* ---- /startcall: request and configuration
    req,            \* query of the request: [paramsMissing, hostValid, clientid]
    javaBaseUrl,    \* TRUE iff JAVA_UCID_BASEURL is set
    \* ---- /startcall: locals of the handler
    pc,             \* position in the handler
    station,        \* let station
    clientid,       \* let clientid
    createdTemp,    \* let createdTemp
    interactionId,  \* let interactionId
    ucidFromJava,   \* let ucidFromJava
    ucidFromOnex,   \* let ucidFromOnex
    attempts,       \* let attempts
    ucid,           \* const ucid
    javaTask,       \* javaUcidPromise: "unstarted" | "pending" | "resolved"
    javaValue,      \* value javaUcidPromise resolves to
    \* ---- /startcall: what the outside world saw and answered
    issued,         \* requests issued so far, per endpoint
    replies,        \* the raw replies received: register, makecall, monitor, voice,
                    \* and the outcomes of the call-log insert and of the unregister
    pollErrors,     \* polls that failed (transport error or unparsable body)
    response,       \* the response sent to the requester, or NoResponse
    nResponses,     \* number of responses sent
    \* ---- control actions (/release, /hold, /unhold, /mute, /unmute)
    ca,             \* the whole state of one control-action request
    \* ---- recording archive (api/acr.js)
    ar,             \* the whole state of one archive request
    rs,             \* the calls of ensureLocalWav, per caller
    files,          \* the cache directory MEDIA_ROOT, per sanitized name
    hist,           \* history of ensureLocalWav: finished calls, overlaps, sweeps
    sf,             \* one call of streamFile: file size, Range header, response
    sw              \* one run of cleanupOldMedia: clock, directory listing, outcome

scVars == <<req, javaBaseUrl, pc, station, clientid, createdTemp, interactionId,
            ucidFromJava, ucidFromOnex, attempts, ucid, javaTask, javaValue,
            issued, replies, pollErrors, response, nResponses>>
acrVars == <<ar, rs, files, hist, sf, sw>>
vars == <<scVars, ca, acrVars>>

---------------------------------------------------------------------------
(* Bounds of the model *)

\* UCID_POLL_MAX (environment): maximum number of notification polls
UCID_POLL_MAX_ATTEMPTS == 3

---------------------------------------------------------------------------
(* JavaScript values *)

NULL == "null"        \* null / undefined / attribute absent
THROW == "throw"      \* the awaited call rejected

\* JS truthiness of a string-or-null value
Truthy(v) == v # NULL /\ v # ""

\* a || b
JsOr(a, b) == IF Truthy(a) THEN a ELSE b

---------------------------------------------------------------------------
(* Inputs and replies *)

ClientIdInputs == {NULL, "", "c0"}
StationResults == {NULL, "s1"}
\* registerclient: rejected, or attrs.ClientId
RegisterReplies == {THROW, NULL, "c1"}
\* makecall: rejected, or the ResponseCode attribute of the reply
MakecallReplies == {THROW, NULL, "0", "1"}
\* nextnotification: failed poll, no VoiceInteractionCreated, or its attributes
NoVoice == [kind |-> "none", ObjectId |-> NULL, UCID |-> NULL]
PollError == [kind |-> "error", ObjectId |-> NULL, UCID |-> NULL]
VoiceReplies == [kind : {"voice"}, ObjectId : {NULL, "VI1"}, UCID : {NULL, "u1"}]
PollReplies == {PollError, NoVoice} \cup VoiceReplies
\* monitor: request failed, or JSON body { ok, ucid }
MonitorError == [kind |-> "error", ok |-> FALSE, ucid |-> NULL]
MonitorReplies == {MonitorError} \cup [kind : {"json"}, ok : BOOLEAN, ucid : {NULL, "uj"}]
NoReply == "noreply"

NoResponse == [status |-> 0, success |-> FALSE, ucid |-> NULL, interactionId |-> NULL,
               clientId |-> NULL, station |-> NULL]

Endpoints == {"registerclient", "unregisterclient", "makecall", "nextnotification",
              "monitor", "stationquery", "insertOnexCallLog", "callLogInsert"}

---------------------------------------------------------------------------
(* Pure parts of the handler *)

\* ensureClient, first line: a truthy provided client id is used as is
\* variant: a session is registered even when the caller supplied one
UsesProvidedNever(providedClientId) == FALSE

UsesProvided(providedClientId) == Truthy(providedClientId)

\* ensureClient after registerClient returned attrs: the client id, or THROW
EnsureRegistered(reg) ==
    IF reg = THROW THEN THROW
    ELSE IF ~Truthy(reg) THEN THROW
    ELSE reg

\* variant: the attempt bound is off by one
PollConditionOffByOne(att, iid, uc) ==
    att <= UCID_POLL_MAX_ATTEMPTS /\ (~Truthy(iid) \/ ~Truthy(uc))

\* variant: a correlation id already delivered by the monitor ends the polling
PollConditionUsesMonitor(att, iid, uc) ==
    att < UCID_POLL_MAX_ATTEMPTS /\ ~Truthy(javaValue) /\ (~Truthy(iid) \/ ~Truthy(uc))

\* the while condition of the poll loop
PollCondition(att, iid, uc) ==
    att < UCID_POLL_MAX_ATTEMPTS /\ (~Truthy(iid) \/ ~Truthy(uc))

\* variant: any parsed notification leaves the loop
PollBreaksOnAnyNotification(reply) == reply.kind \in {"voice", "none"}

\* the body of the poll loop after the reply: TRUE iff the loop is left (break)
PollBreaks(reply) == reply.kind = "voice"

\* variant: a failed poll is rethrown to the handler's catch
AfterPollErrorFatal == "catch"

\* where a failed poll continues: the catch of the loop body, then the sleep
AfterPollError == "sleep"

\* variant: the exception is swallowed and the handler polls anyway
AfterThrowSwallowed == "loop"

\* variant: no catch block answers the exception
AfterThrowUnanswered == "finally"

\* where a throwing makecall or registration continues
AfterThrow == "catch"

\* getUcidFromJava: the value the promise resolves to for a monitor reply
\* variant: the ucid of a reply is taken whatever its ok flag says
getUcidFromJavaIgnoresOk(reply) ==
    IF reply.kind = "error" THEN NULL
    ELSE IF Truthy(reply.ucid) THEN reply.ucid
    ELSE NULL

getUcidFromJava(reply) ==
    IF reply.kind = "error" THEN NULL
    ELSE IF reply.ok /\ Truthy(reply.ucid) THEN reply.ucid
    ELSE NULL

\* variant: the notification value is preferred
PickUcidOnexFirst(fromJava, fromOnex) == JsOr(JsOr(fromOnex, fromJava), NULL)

\* const ucid = ucidFromJava || ucidFromOnex || null
PickUcid(fromJava, fromOnex) == JsOr(JsOr(fromJava, fromOnex), NULL)

\* variant: success also requires a correlation id
SuccessFlagNeedsUcid(iid) == Truthy(iid) /\ Truthy(ucid)

\* success: !!interactionId
SuccessFlag(iid) == Truthy(iid)

\* insertOnexCallLog: the guard that skips the insert
CallLogSkips(iid, cid) == ~Truthy(iid) \/ ~Truthy(cid)

\* the database insert of an audit row succeeds, or connect/query fails
InsertOutcomes == {"ok", "failed"}

\* the unregisterclient request succeeds, is rejected, or times out
UnregisterOutcomes == {"ok", "failed", "timeout"}

\* variant: a failed teardown is rethrown into the handler's catch
AfterUnregisterRethrown(outcome) == IF outcome = "ok" THEN "done" ELSE "catch"

\* unregisterClient catches every error of its request and only logs it
AfterUnregister(outcome) == "done"

\* variant: a failed insert is rethrown to the handler
AfterCallLogFailureThrows(outcome) == IF outcome = "failed" THEN "catch" ELSE "respond"

\* insertOnexCallLog catches the insert's error and resolves either way
AfterCallLog(outcome) == "respond"

\* variant: teardown only on the success path
FinallyUnregistersOnSuccessOnly(created) == created /\ response.status = 200

\* variant: teardown whoever created the session
FinallyUnregistersAlways(created) == TRUE

\* finally: if (createdTemp) unregisterClient(...)
FinallyUnregisters(created) == created

\* variant: the monitor is started whether or not a station was found
StartsMonitorAlways(st) == TRUE

\* the station check that starts the monitor: station ? getUcidFromJava(...) : null
StartsMonitor(st) == Truthy(st)

Issue(ep) == [issued EXCEPT ![ep] = @ + 1]

---------------------------------------------------------------------------
(* Control actions: requests, replies and pure parts *)

ControlActions == {"release", "hold", "unhold", "mute", "unmute"}

\* /release, /hold and /unhold require interactionid; /mute and /unmute do not
RequiresInteraction(action) == action \in {"release", "hold", "unhold"}

\* query of a control-action request
ControlQueries == [deviceIp : BOOLEAN, hostValid : BOOLEAN,
                   interactionid : {NULL, "VI1"}, clientid : ClientIdInputs]

\* /voice/{action}: rejected (transport error, unparsable body), or attrs.ResponseCode
VoiceActionReplies == {THROW, NULL, "0", "1", "2"}

CaNoResponse == [status |-> 0, success |-> FALSE, code |-> NULL, clientId |-> NULL,
                 interactionId |-> NULL]

\* the state of a handler that has just been entered
CaStart(action, q) ==
    [pc |-> "recv", action |-> action, q |-> q, clientid |-> q.clientid,
     createdTemp |-> FALSE, ok |-> FALSE, code |-> NULL, reply |-> NoReply,
     registerReply |-> NoReply, logOutcome |-> NoReply,
     registers |-> 0, unregisters |-> 0, voiceRequests |-> 0,
     logs |-> << >>, response |-> CaNoResponse, nResponses |-> 0]

CaIdle == [CaStart("release", [deviceIp |-> FALSE, hostValid |-> FALSE,
                               interactionid |-> NULL, clientid |-> NULL])
           EXCEPT !.pc = "idle"]

\* the 400 guard at the top of each handler
CaMissingParams(action, q) ==
    IF RequiresInteraction(action)
    THEN ~q.deviceIp \/ ~Truthy(q.interactionid)
    ELSE ~q.deviceIp

\* variant: a missing ResponseCode counts as success
CaIsOkLoose(code) == code = "0" \/ code = NULL

\* ok = attrs.ResponseCode === '0'
CaIsOk(code) == code = "0"

\* variant: a remote-reported failure is answered like a transport failure
CaNotOkResponseAsError(action, code, cid, iid) ==
    [CaNoResponse EXCEPT !.status = 500]

\* the body sent when !ok: 502 with the remote code
CaNotOkResponse(action, code, cid, iid) ==
    [status |-> 502, success |-> FALSE, code |-> code,
     clientId |-> IF action \in {"release", "hold", "unhold"} THEN cid ELSE NULL,
     interactionId |-> IF action = "release" THEN iid ELSE NULL]

\* the body sent when ok: 200
CaOkResponse(action, code, cid, iid) ==
    [status |-> 200, success |-> TRUE, code |-> code,
     clientId |-> IF action = "release" THEN cid ELSE NULL,
     interactionId |-> IF action = "release" THEN iid ELSE NULL]

\* the body sent by the catch block: 500 with the error message
CaErrorResponse == [CaNoResponse EXCEPT !.status = 500]

\* the interactionId handed to insertOnexActionLog
CaLoggedInteraction(action, iid) ==
    IF RequiresInteraction(action) THEN iid ELSE JsOr(iid, NULL)

\* insertOnexActionLog: the row whose insert is attempted
insertOnexActionLog(action, iid, success) ==
    [action |-> action, interaction_id |-> JsOr(iid, "(by-ip)"), success |-> success]

---------------------------------------------------------------------------
(* Recording archive (api/acr.js): strings, dates and numbers *)

\* A query string is a sequence of characters; an optional query parameter is
\* [given, s]: given = FALSE stands for undefined.
Absent == [given |-> FALSE, s |-> << >>]
Given(str) == [given |-> TRUE, s |-> str]

\* JS truthiness of an optional string parameter
ParamTruthy(prm) == prm.given /\ prm.s # << >>

\* (param || '')
OrEmpty(prm) == IF ParamTruthy(prm) THEN prm.s ELSE << >>

IsDigit(c) == c \in {"0", "1", "2", "3", "4", "5", "6", "7", "8", "9"}

DigitVal(c) ==
    CASE c = "0" -> 0 [] c = "1" -> 1 [] c = "2" -> 2 [] c = "3" -> 3 [] c = "4" -> 4
      [] c = "5" -> 5 [] c = "6" -> 6 [] c = "7" -> 7 [] c = "8" -> 8 [] c = "9" -> 9

\* the value of a sequence of digits
RECURSIVE DigitsVal(_)
DigitsVal(str) ==
    IF str = << >> THEN 0
    ELSE 10 * DigitsVal(SubSeq(str, 1, Len(str) - 1)) + DigitVal(str[Len(str)])

\* String.prototype.trim
RECURSIVE TrimLeft(_)
TrimLeft(str) ==
    IF str # << >> /\ Head(str) = " " THEN TrimLeft(Tail(str)) ELSE str

RECURSIVE TrimRight(_)
TrimRight(str) ==
    IF str # << >> /\ str[Len(str)] = " "
    THEN TrimRight(SubSeq(str, 1, Len(str) - 1)) ELSE str

Trim(str) == TrimRight(TrimLeft(str))

\* the longest prefix of digits
RECURSIVE DigitPrefix(_)
DigitPrefix(str) ==
    IF str # << >> /\ IsDigit(Head(str))
    THEN <<Head(str)>> \o DigitPrefix(Tail(str)) ELSE << >>

\* parseInt(str, 10): [nan, n]
NaN == [nan |-> TRUE, n |-> 0]
parseInt(str) ==
    LET t == TrimLeft(str)
        neg == t # << >> /\ Head(t) = "-"
        body == IF t # << >> /\ Head(t) \in {"-", "+"} THEN Tail(t) ELSE t
        digits == DigitPrefix(body)
    IN  IF digits = << >> THEN NaN
        ELSE [nan |-> FALSE, n |-> IF neg THEN 0 - DigitsVal(digits) ELSE DigitsVal(digits)]

\* /^\d{4}-\d{2}-\d{2}$/
MatchesYMD(str) ==
    /\ Len(str) = 10
    /\ \A i \in {1, 2, 3, 4, 6, 7, 9, 10} : IsDigit(str[i])
    /\ str[5] = "-" /\ str[8] = "-"

IsLeapYear(y) == (y % 4 = 0 /\ y % 100 # 0) \/ y % 400 = 0

DaysInMonth(y, m) ==
    IF m = 2 THEN (IF IsLeapYear(y) THEN 29 ELSE 28)
    ELSE IF m \in {4, 6, 9, 11} THEN 30 ELSE 31

\* variant: the month and day ranges are not checked
parseYMDNoRangeCheck(ymd) ==
    LET str == Trim(ymd) IN
    IF ~MatchesYMD(str) THEN [ok |-> FALSE, y |-> 0, m |-> 0, d |-> 0]
    ELSE [ok |-> TRUE, y |-> DigitsVal(SubSeq(str, 1, 4)),
          m |-> DigitsVal(SubSeq(str, 6, 7)), d |-> DigitsVal(SubSeq(str, 9, 10))]

\* parseYMD: strict YYYY-MM-DD; ok = FALSE stands for null.  new Date(y, m-1, d)
\* rolls a day past the end of the month over, so the comparison of line 109
\* fails exactly when d exceeds the days of the month.
parseYMD(ymd) ==
    LET str == Trim(ymd)
        y == DigitsVal(SubSeq(str, 1, 4))
        m == DigitsVal(SubSeq(str, 6, 7))
        d == DigitsVal(SubSeq(str, 9, 10))
        null == [ok |-> FALSE, y |-> 0, m |-> 0, d |-> 0]
    IN  IF ~MatchesYMD(str) THEN null
        ELSE IF y < 1970 \/ y > 2100 THEN null
        ELSE IF m < 1 \/ m > 12 THEN null
        ELSE IF d < 1 \/ d > 31 THEN null
        ELSE IF d > DaysInMonth(y, m) THEN null
        ELSE [ok |-> TRUE, y |-> y, m |-> m, d |-> d]

\* computeRangeFromQuery: "ok", or the Error it throws
computeRangeFromQuery(startdate, enddate, windowDays) ==
    IF ~parseYMD(startdate).ok THEN "Invalid startdate"
    ELSE IF ParamTruthy(enddate)
         THEN (IF ~parseYMD(enddate.s).ok THEN "Invalid enddate" ELSE "ok")
    ELSE IF windowDays.given
         THEN (IF parseInt(windowDays.s).nan \/ parseInt(windowDays.s).n <= 0
               THEN "Invalid windowDays" ELSE "ok")
    ELSE "ok"

\* the catch blocks: /^Invalid (startdate|enddate|windowDays)/ gives 400, else 502
CatchStatus(message) ==
    IF message \in {"Invalid startdate", "Invalid enddate", "Invalid windowDays"}
    THEN 400 ELSE 502

\* limit logic of /searchByNumber
LimitOf(limitParam) ==
    LET parsed == parseInt(IF ParamTruthy(limitParam) THEN limitParam.s ELSE <<"0">>)
    IN  IF parsed.nan \/ parsed.n < 0 THEN 0 ELSE parsed.n

---------------------------------------------------------------------------
(* Recording archive: records, items and the cache directory *)

MaxResults == 3
MaxUcidResults == 2

SeqsUpTo(S, n) == UNION {[1..k -> S] : k \in 0..n}

\* recording identifiers; the empty string stands for a missing inum attribute
NoInum == << >>
InumA == <<"a", "/", "1">>
InumB == <<"a", "_", "1">>
Inums == {InumA, InumB}

\* start times: 0 stands for a missing startedat field (new Date(0))
StartTimes == {0, 1, 2, 3}

\* what the archive may return for one recording
ArchiveRecords ==
    {[inum |-> NoInum, startedat |-> 0]} \cup [inum : {InumA}, startedat : StartTimes]
UcidRecords == {r \in ArchiveRecords : r.startedat <= 1}

NumberReplies == SeqsUpTo(ArchiveRecords, MaxResults)
UcidReplies == SeqsUpTo(UcidRecords, MaxUcidResults)

\* encodeURIComponent, for the characters of the identifiers
RECURSIVE encodeURIComponent(_)
encodeURIComponent(str) ==
    IF str = << >> THEN << >>
    ELSE (IF Head(str) = "/" THEN <<"%", "2", "F">> ELSE <<Head(str)>>)
         \o encodeURIComponent(Tail(str))

NoUrl == << >>

\* buildReplayUrls: the proxied URL
buildReplayUrls(inum) == <<"/api/acr/replay/">> \o encodeURIComponent(inum)

\* mapResultFields and the payload built from one archive record
mapResultFields(result) ==
    [inum |-> result.inum, started_at |-> result.startedat,
     playback_url |-> buildReplayUrls(result.inum)]

\* results.map(...).filter(Boolean) of /searchByNumber
\* variant: records without identifier are kept
RECURSIVE MapAll(_)
MapAll(results) ==
    IF results = << >> THEN << >>
    ELSE <<mapResultFields(Head(results))>> \o MapAll(Tail(results))

RECURSIVE MapAndFilter(_)
MapAndFilter(results) ==
    IF results = << >> THEN << >>
    ELSE (IF Head(results).inum = NoInum THEN << >>
          ELSE <<mapResultFields(Head(results))>>) \o MapAndFilter(Tail(results))

\* variant: oldest first
RECURSIVE InsertOldestFirst(_, _)
InsertOldestFirst(item, sorted) ==
    IF sorted = << >> THEN <<item>>
    ELSE IF Head(sorted).started_at <= item.started_at
         THEN <<Head(sorted)>> \o InsertOldestFirst(item, Tail(sorted))
         ELSE <<item>> \o sorted

\* items.sort((a, b) => new Date(b.started_at || 0) - new Date(a.started_at || 0))
\* Array.prototype.sort is stable.
RECURSIVE InsertNewestFirst(_, _)
InsertNewestFirst(item, sorted) ==
    IF sorted = << >> THEN <<item>>
    ELSE IF Head(sorted).started_at >= item.started_at
         THEN <<Head(sorted)>> \o InsertNewestFirst(item, Tail(sorted))
         ELSE <<item>> \o sorted

\* variant: the comparator is reversed
RECURSIVE SortItemsOldestFirst(_)
SortItemsOldestFirst(items) ==
    IF items = << >> THEN << >>
    ELSE InsertOldestFirst(items[Len(items)],
                           SortItemsOldestFirst(SubSeq(items, 1, Len(items) - 1)))

RECURSIVE SortItems(_)
SortItems(items) ==
    IF items = << >> THEN << >>
    ELSE InsertNewestFirst(items[Len(items)], SortItems(SubSeq(items, 1, Len(items) - 1)))

\* items.slice(0, limit)
Slice(items, limit) == SubSeq(items, 1, IF limit < Len(items) THEN limit ELSE Len(items))

\* safeName: every character outside [a-zA-Z0-9._-] becomes "_" (the
\* identifiers of the model are shorter than the 128 characters kept)
RECURSIVE safeName(_)
safeName(str) ==
    IF str = << >> THEN << >>
    ELSE (IF Head(str) \in {"a", "b", "1", "2", ".", "_", "-"} THEN <<Head(str)>> ELSE <<"_">>)
         \o safeName(Tail(str))

SafeNames == {safeName(i) : i \in Inums}

\* one triple of cache files: the .wav, the .raw.bin and the .json
NoFile == [wav |-> "absent", raw |-> "absent", meta |-> FALSE]
CachedFile == [wav |-> "ok", raw |-> "absent", meta |-> TRUE]

Callers == {1, 2}
NoExit == [kind |-> "none", code |-> 0]
NoCall == [pc |-> "idle", inum |-> NoInum, sawWav |-> "none",
           downloads |-> 0, transcodes |-> 0,
           status |-> 0, exit |-> NoExit, steps |-> << >>,
           metaWrite |-> "none", unlink |-> "none", error |-> "none"]
NoHistory == [started |-> 0, calls |-> << >>, overlapped |-> FALSE, swept |-> FALSE]

\* streamFile not called, no sweep under observation
SfIdle == [pc |-> "idle"]
SwIdle == [pc |-> "idle"]
MediaIdle == sf = SfIdle /\ sw = SwIdle

\* no archive request, nobody in ensureLocalWav, an empty cache directory
ArIdle == [pc |-> "idle"]
ArchiveIdle ==
    /\ ar = ArIdle
    /\ rs = [p \in Callers |-> NoCall]
    /\ files = [n \in SafeNames |-> NoFile]
    /\ hist = NoHistory

AcrIdle == MediaIdle /\ ArchiveIdle

---------------------------------------------------------------------------
(* ensureLocalWav, downloadRawFromAcr, transcodeToWav, cleanupOldMedia *)

\* variant: existence alone counts as a hit
CacheHitIfExists(file) == file.wav # "absent"

\* fs.existsSync(wav) && fs.statSync(wav).size > 0
CacheHit(file) == file.wav \in {"partial", "ok"}

InFlight == {"download", "pipe", "transcode", "transcoding"}

\* variant: only the statuses from 400 on are rejected
DownloadRejectsErrorsOnly(status) == status >= 400

\* r.status < 200 || r.status >= 400
DownloadStatuses == {199, 200, 399, 400}
DownloadRejects(status) == status < 200 \/ status >= 400

\* proc.on('close'): code === 0 resolves, any other code rejects
ExitCodes == {0, 1}
TranscodeSucceeds(code) == code = 0

\* variant: a failed meta write or raw delete fails the call
AfterSidecarStrict(metaOk, unlinkOk) ==
    IF metaOk /\ unlinkOk THEN "returned" ELSE "threw"

\* the two try/catch blocks after the transcode: whatever the outcome of the
\* meta write and of the raw delete, ensureLocalWav returns the wav path
AfterSidecar(metaOk, unlinkOk) == "returned"

\* variant: the raw file is left in place
RawKept(raw, unlinkOk) == raw

\* fs.unlinkSync(raw) in its try/catch
RawAfterUnlink(raw, unlinkOk) == IF unlinkOk THEN "absent" ELSE raw

\* fs.writeFileSync(meta, ...) in its try/catch
MetaAfterWrite(meta, metaOk) == metaOk \/ meta

\* what a call finds at the wav path when it enters: nothing or an empty
\* file, or a file with content
SizeSeen(file) == IF file.wav \in {"partial", "ok"} THEN "nonempty" ELSE "none"

\* the error of a call that threw is one of the two the code raises itself,
\* 'ACR GET failed' and 'ffmpeg exited', or "io error" for an error of the
\* request, of a stream or of the spawn
\* the entry appended to the history when a call ends
Ended(call, outcome) ==
    [inum |-> call.inum, outcome |-> outcome, sawWav |-> call.sawWav,
     downloads |-> call.downloads, transcodes |-> call.transcodes,
     exit |-> call.exit, steps |-> call.steps,
     metaWrite |-> call.metaWrite, unlink |-> call.unlink, error |-> call.error]

\* the call ends: it returns the wav path or throws; its locals are dropped
\* with its frame
Finish(p, call, outcome) ==
    /\ rs' = [rs EXCEPT ![p] = [NoCall EXCEPT !.pc = outcome, !.inum = call.inum]]
    /\ hist' = [hist EXCEPT !.calls = Append(@, Ended(call, outcome))]

\* variant: a call waits while another call works on the same file name
WaitsForSameName(p, inum) ==
    \E q \in Callers \ {p} :
        rs[q].pc \in InFlight /\ safeName(rs[q].inum) = safeName(inum)

\* ensureLocalWav takes no lock and keeps no table of the calls in progress:
\* nothing makes a call wait for another one
WaitsForOther(p, inum) == FALSE

\* ensureLocalWav up to its first await: the cache check, and on a miss the
\* download request
ensureLocalWav(p, inum) ==
    LET file == files[safeName(inum)]
        call == [NoCall EXCEPT !.pc = "download", !.inum = inum, !.sawWav = SizeSeen(file),
                               !.downloads = IF CacheHit(file) THEN 0 ELSE 1,
                               !.steps = IF CacheHit(file) THEN << >> ELSE <<"download">>]
        overlap == \E q \in Callers \ {p} :
                       rs[q].pc \in InFlight /\ safeName(rs[q].inum) = safeName(inum)
    IN  /\ ~WaitsForOther(p, inum)
        /\ rs' = [rs EXCEPT ![p] = IF CacheHit(file)
                                    THEN [NoCall EXCEPT !.pc = "returned", !.inum = inum]
                                    ELSE call]
        /\ hist' = [hist EXCEPT !.started = @ + 1,
                                !.overlapped = @ \/ overlap,
                                !.calls = IF CacheHit(file)
                                          THEN Append(@, Ended(call, "returned")) ELSE @]
        /\ UNCHANGED files

\* downloadRawFromAcr: the archive answers the download request
DownloadReturn(p) ==
    /\ rs[p].pc = "download"
    /\ \/ /\ Finish(p, [rs[p] EXCEPT !.error = "io error"], "threw")
          /\ UNCHANGED files
       \/ \E status \in DownloadStatuses :
            IF DownloadRejects(status)
            THEN /\ Finish(p, [rs[p] EXCEPT !.error = "ACR GET failed"], "threw")
                 /\ UNCHANGED files
            ELSE /\ rs' = [rs EXCEPT ![p].pc = "pipe", ![p].status = status]
                 /\ files' = [files EXCEPT ![safeName(rs[p].inum)].raw = "partial"]
                 /\ UNCHANGED hist
    /\ UNCHANGED <<scVars, ca, sf, sw, ar>>

\* downloadRawFromAcr: the body has been piped to the raw file, or a stream
\* failed; after the download the transcoder is spawned
PipeReturn(p) ==
    /\ rs[p].pc = "pipe"
    /\ \/ /\ rs' = [rs EXCEPT ![p].pc = "transcode", ![p].transcodes = @ + 1,
                              ![p].steps = Append(@, "transcode")]
          /\ files' = [files EXCEPT ![safeName(rs[p].inum)].raw = "ok"]
          /\ UNCHANGED hist
       \/ /\ Finish(p, [rs[p] EXCEPT !.error = "io error"], "threw")
          /\ UNCHANGED files
    /\ UNCHANGED <<scVars, ca, sf, sw, ar>>

\* transcodeToWav: ffmpeg -y creates or truncates the output file
TranscodeOpen(p) ==
    /\ rs[p].pc = "transcode"
    /\ rs' = [rs EXCEPT ![p].pc = "transcoding"]
    /\ files' = [files EXCEPT ![safeName(rs[p].inum)].wav = "empty"]
    /\ UNCHANGED <<scVars, ca, sf, sw, ar, hist>>

\* transcodeToWav: ffmpeg writes output
TranscodeWrite(p) ==
    /\ rs[p].pc = "transcoding"
    /\ files[safeName(rs[p].inum)].wav = "empty"
    /\ files' = [files EXCEPT ![safeName(rs[p].inum)].wav = "partial"]
    /\ UNCHANGED <<scVars, ca, sf, sw, ar, rs, hist>>

\* transcodeToWav ends: spawn error, or the process closes with an exit
\* code; on code 0 ensureLocalWav writes the meta file, then deletes the raw
\* file (both best-effort) and returns.  A process that exits with code 0 has
\* written its output.
TranscodeReturn(p) ==
    LET name == safeName(rs[p].inum) IN
    /\ \/ /\ rs[p].pc \in {"transcode", "transcoding"}
          /\ Finish(p, [rs[p] EXCEPT !.error = "io error"], "threw")
          /\ UNCHANGED files
       \/ /\ rs[p].pc \in {"transcode", "transcoding"}
          /\ \E code \in ExitCodes :
               LET closed == [rs[p] EXCEPT !.exit = [kind |-> "close", code |-> code]] IN
               IF TranscodeSucceeds(code)
               THEN /\ rs[p].pc = "transcoding"
                    /\ files[name].wav = "partial"
                    /\ \E metaOk \in BOOLEAN, unlinkOk \in BOOLEAN :
                         /\ files' = [files EXCEPT ![name] =
                                        [wav |-> "ok",
                                         raw |-> RawAfterUnlink(@.raw, unlinkOk),
                                         meta |-> MetaAfterWrite(@.meta, metaOk)]]
                         /\ Finish(p, [closed EXCEPT
                                         !.steps = @ \o <<"meta", "unlink">>,
                                         !.metaWrite = IF metaOk THEN "ok" ELSE "failed",
                                         !.unlink = IF unlinkOk THEN "ok" ELSE "failed"],
                                   AfterSidecar(metaOk, unlinkOk))
               ELSE /\ Finish(p, [closed EXCEPT !.error = "ffmpeg exited"], "threw")
                    /\ UNCHANGED files
    /\ UNCHANGED <<scVars, ca, sf, sw, ar>>

\* cleanupOldMedia: every cache file older than the retention is removed.
\* A file is old only if nobody is writing it.
BeingWritten(name) ==
    \E p \in Callers : rs[p].pc \in {"pipe", "transcode", "transcoding"}
                       /\ safeName(rs[p].inum) = name

cleanupOldMedia ==
    /\ \E name \in SafeNames, oldWav \in BOOLEAN, oldRaw \in BOOLEAN, oldMeta \in BOOLEAN :
         /\ ~BeingWritten(name)
         /\ \/ oldWav /\ files[name].wav # "absent"
            \/ oldRaw /\ files[name].raw # "absent"
            \/ oldMeta /\ files[name].meta
         /\ files' = [files EXCEPT ![name] =
                        [wav |-> IF oldWav THEN "absent" ELSE @.wav,
                         raw |-> IF oldRaw THEN "absent" ELSE @.raw,
                         meta |-> IF oldMeta THEN FALSE ELSE @.meta]]
    /\ hist' = [hist EXCEPT !.swept = TRUE]
    /\ UNCHANGED <<scVars, ca, sf, sw, ar, rs>>

---------------------------------------------------------------------------
(* cleanupOldMedia with its clock and the modification times *)

\* CACHE_TTL_HOURS (environment, default '72'), and the retention in ms
CACHE_TTL_HOURS == 72
RetentionMs == CACHE_TTL_HOURS * 3600 * 1000

\* String.prototype.toLowerCase on the letters of the model's file names
LowerChar(c) == CASE c = "A" -> "a" [] c = "V" -> "v" [] c = "W" -> "w" [] OTHER -> c
toLowerCase(str) == [i \in DOMAIN str |-> LowerChar(str[i])]

EndsWith(str, suffix) ==
    /\ Len(str) >= Len(suffix)
    /\ SubSeq(str, Len(str) - Len(suffix) + 1, Len(str)) = suffix

\* /\.(wav|json|raw\.bin)$/i.test(name)
IsCacheFile(name) ==
    LET l == toLowerCase(name)
    IN  \/ EndsWith(l, <<".", "w", "a", "v">>)
        \/ EndsWith(l, <<".", "j", "s", "o", "n">>)
        \/ EndsWith(l, <<".", "r", "a", "w", ".", "b", "i", "n">>)

\* variant: a file as old as the cutoff is old
IsOldOrAtCutoff(mtimeMs, cutoff) == mtimeMs <= cutoff

\* st.mtimeMs < cutoff
IsOld(mtimeMs, cutoff) == mtimeMs < cutoff

\* the names fs.readdirSync(MEDIA_ROOT) can return
DirNames ==
    {<<"a", ".", "w", "a", "v">>, <<"b", ".", "W", "A", "V">>,
     <<"a", ".", "j", "s", "o", "n">>, <<"a", ".", "r", "a", "w", ".", "b", "i", "n">>,
     <<"a", ".", "b", "i", "n">>, <<"a", ".", "w", "a", "v", ".", "t", "m", "p">>}

\* Date.now() of the run, and the modification times around its cutoff
SweepNow == RetentionMs + 2
SweepMtimes == {SweepNow - RetentionMs - 1, SweepNow - RetentionMs,
                SweepNow - RetentionMs + 1, SweepNow}
NoEntry == [present |-> FALSE, mtimeMs |-> 0]
DirEntries == {NoEntry} \cup {[present |-> TRUE, mtimeMs |-> t] : t \in SweepMtimes}

\* no file of the directory fails
NoName == << >>

\* the directory after the loop: every cache file older than the cutoff is
\* unlinked, except the one whose statSync or unlinkSync throws (the catch
\* inside the loop logs and the loop goes on)
Swept(dir, cutoff, failing) ==
    [n \in DOMAIN dir |->
        IF dir[n].present /\ IsCacheFile(n) /\ IsOld(dir[n].mtimeMs, cutoff) /\ n # failing
        THEN NoEntry ELSE dir[n]]

---------------------------------------------------------------------------
(* streamFile *)

\* largest file size of the model
MaxSize == 3

BytesEq == <<"b", "y", "t", "e", "s", "=">>

\* /bytes=(\d+)-(\d*)/.exec(range): the leftmost match and its two groups.
\* The expression is not anchored, and its groups are greedy.
NoMatch == [matched |-> FALSE, m1 |-> << >>, m2 |-> << >>]

RECURSIVE RangeExec(_)
RangeExec(str) ==
    IF Len(str) < Len(BytesEq) + 2 THEN NoMatch
    ELSE LET rest == SubSeq(str, Len(BytesEq) + 1, Len(str))
             m1 == DigitPrefix(rest)
             after == SubSeq(rest, Len(m1) + 1, Len(rest))
         IN  IF /\ SubSeq(str, 1, Len(BytesEq)) = BytesEq
                /\ m1 # << >>
                /\ after # << >> /\ Head(after) = "-"
             THEN [matched |-> TRUE, m1 |-> m1, m2 |-> DigitPrefix(Tail(after))]
             ELSE RangeExec(Tail(str))

\* variant: the length of the half-open range
ContentLengthExclusive(start, end) == end - start

\* res.setHeader('Content-Length', end - start + 1)
ContentLength(start, end) == end - start + 1

\* fs.createReadStream(filePath, { start, end }): a start after the end is
\* rejected with a RangeError before anything is read (so is a negative end,
\* which is below every start)
createReadStream(start, end) == IF start > end THEN "threw" ELSE "piped"

\* what streamFile sets on the response, and whether the file is piped
NoStream == [status |-> 0, contentRange |-> << >>, contentLength |-> 0, body |-> "none"]

streamFile(total, range) ==
    LET m == IF ParamTruthy(range) THEN RangeExec(range.s) ELSE NoMatch IN
    IF m.matched
    THEN LET start == parseInt(m.m1).n
             end == IF m.m2 # << >> THEN parseInt(m.m2).n ELSE total - 1
         IN  [status |-> 206, contentRange |-> <<start, end, total>>,
              contentLength |-> ContentLength(start, end),
              body |-> createReadStream(start, end)]
    ELSE [status |-> 200, contentRange |-> << >>, contentLength |-> total,
          body |-> "piped"]

\* the Range headers of the model: absent, empty, and a unit, a start, a dash
\* and an end, possibly after other text
RangeUnits == {BytesEq, <<"B", "y", "t", "e", "s", "=">>, <<"b", "y", "t", "e", "s", " ">>}
RangeStarts == {<< >>, <<"0">>, <<"1">>, <<"2">>, <<"1", "2">>, <<"a">>}
RangeEnds == {<< >>, <<"0">>, <<"1">>, <<"3">>, <<"x">>, <<"1", "x">>}
RangeLeads == {<< >>, <<"x">>}
RangeHeaders ==
    {Absent, Given(<< >>)} \cup
    {Given(lead \o unit \o start \o <<"-">> \o end) :
        lead \in RangeLeads, unit \in RangeUnits, start \in RangeStarts, end \in RangeEnds}

---------------------------------------------------------------------------
(* GET /startcall *)

InitStartcall ==
    /\ req \in [paramsMissing : BOOLEAN, hostValid : BOOLEAN, clientid : ClientIdInputs]
    /\ javaBaseUrl \in BOOLEAN
    /\ pc = "recv"
    /\ station = NULL
    /\ clientid = req.clientid
    /\ createdTemp = FALSE
    /\ interactionId = NULL
    /\ ucidFromJava = NULL
    /\ ucidFromOnex = NULL
    /\ attempts = 0
    /\ ucid = NULL
    /\ javaTask = "unstarted"
    /\ javaValue = NULL
    /\ issued = [e \in Endpoints |-> 0]
    /\ replies = [register |-> NoReply, makecall |-> NoReply,
                  monitor |-> MonitorError, monitorSeen |-> FALSE, voice |-> NoVoice,
                  calllog |-> NoReply, unregister |-> NoReply]
    /\ pollErrors = 0
    /\ response = NoResponse
    /\ nResponses = 0

Init == InitStartcall /\ ca = CaIdle /\ AcrIdle

\* sendJson(res, status, body) for the failure bodies
FailureResponse(status) == [NoResponse EXCEPT !.status = status]

\* lines 275-316: validation, buildBaseUrl, then getStationByIp is called
\* (the polling-configuration test of line 299 cannot fail: assertEnv, line 84,
\* throws at load time unless both values are finite)
Receive ==
    /\ pc = "recv"
    /\ IF req.paramsMissing \/ ~req.hostValid
       THEN /\ response' = FailureResponse(400)
            /\ nResponses' = nResponses + 1
            /\ pc' = "done"
            /\ UNCHANGED issued
       ELSE /\ issued' = Issue("stationquery")
            /\ pc' = "station"
            /\ UNCHANGED <<response, nResponses>>
    /\ UNCHANGED <<req, javaBaseUrl, station, clientid, createdTemp, interactionId,
                   ucidFromJava, ucidFromOnex, attempts, ucid, javaTask, javaValue,
                   replies, pollErrors, ca, acrVars>>

\* lines 316-321: getStationByIp resolves (null on no mapping or database error)
StationReturn ==
    /\ pc = "station"
    /\ \E st \in StationResults : station' = st
    /\ pc' = "ensure"
    /\ UNCHANGED <<req, javaBaseUrl, clientid, createdTemp, interactionId,
                   ucidFromJava, ucidFromOnex, attempts, ucid, javaTask, javaValue,
                   issued, replies, pollErrors, response, nResponses, ca, acrVars>>

\* lines 332, 120-122: ensureClient with the provided id, or registerClient is issued
Ensure ==
    /\ pc = "ensure"
    /\ IF UsesProvided(req.clientid)
       THEN /\ clientid' = req.clientid
            /\ createdTemp' = FALSE
            /\ pc' = "place"
            /\ UNCHANGED issued
       ELSE /\ issued' = Issue("registerclient")
            /\ pc' = "register"
            /\ UNCHANGED <<clientid, createdTemp>>
    /\ UNCHANGED <<req, javaBaseUrl, station, interactionId, ucidFromJava, ucidFromOnex,
                   attempts, ucid, javaTask, javaValue, replies, pollErrors,
                   response, nResponses, ca, acrVars>>

\* lines 105-109, 123-125, 333-334: registerclient returns
RegisterReturn ==
    /\ pc = "register"
    /\ \E reg \in RegisterReplies :
         /\ replies' = [replies EXCEPT !.register = reg]
         /\ IF EnsureRegistered(reg) = THROW
            THEN /\ pc' = AfterThrow
                 /\ UNCHANGED <<clientid, createdTemp>>
            ELSE /\ clientid' = EnsureRegistered(reg)
                 /\ createdTemp' = TRUE
                 /\ pc' = "place"
    /\ UNCHANGED <<req, javaBaseUrl, station, interactionId, ucidFromJava, ucidFromOnex,
                   attempts, ucid, javaTask, javaValue, issued, pollErrors,
                   response, nResponses, ca, acrVars>>

\* lines 337-345, 202-208: the monitor fetch is started, then makecall is issued
Place ==
    /\ pc = "place"
    /\ IF StartsMonitor(station)
       THEN IF javaBaseUrl
            THEN /\ javaTask' = "pending"
                 /\ javaValue' = NULL
                 /\ issued' = [issued EXCEPT !["monitor"] = @ + 1, !["makecall"] = @ + 1]
            ELSE /\ javaTask' = "resolved"
                 /\ javaValue' = NULL
                 /\ issued' = Issue("makecall")
       ELSE /\ javaTask' = "resolved"
            /\ javaValue' = NULL
            /\ issued' = Issue("makecall")
    /\ pc' = "makecall"
    /\ UNCHANGED <<req, javaBaseUrl, station, clientid, createdTemp, interactionId,
                   ucidFromJava, ucidFromOnex, attempts, ucid, replies, pollErrors,
                   response, nResponses, ca, acrVars>>

\* lines 208-220: the monitor request returns, fails or times out
JavaReturn ==
    /\ javaTask = "pending"
    /\ \E reply \in MonitorReplies :
         /\ replies' = [replies EXCEPT !.monitor = reply, !.monitorSeen = TRUE]
         /\ javaValue' = getUcidFromJava(reply)
    /\ javaTask' = "resolved"
    /\ UNCHANGED <<req, javaBaseUrl, pc, station, clientid, createdTemp, interactionId,
                   ucidFromJava, ucidFromOnex, attempts, ucid, issued, pollErrors,
                   response, nResponses, ca, acrVars>>

\* lines 342-345: makecall returns; its body is not read
MakecallReturn ==
    /\ pc = "makecall"
    /\ \E reply \in MakecallReplies :
         /\ replies' = [replies EXCEPT !.makecall = reply]
         /\ pc' = IF reply = THROW THEN AfterThrow ELSE "loop"
    /\ UNCHANGED <<req, javaBaseUrl, station, clientid, createdTemp, interactionId,
                   ucidFromJava, ucidFromOnex, attempts, ucid, javaTask, javaValue,
                   issued, pollErrors, response, nResponses, ca, acrVars>>

\* lines 349-355: the while test; attempts++ and the poll is issued, or the loop ends
LoopHead ==
    /\ pc = "loop"
    /\ IF PollCondition(attempts, interactionId, ucidFromOnex)
       THEN /\ attempts' = attempts + 1
            /\ issued' = Issue("nextnotification")
            /\ pc' = "poll"
       ELSE /\ pc' = "join"
            /\ UNCHANGED <<attempts, issued>>
    /\ UNCHANGED <<req, javaBaseUrl, station, clientid, createdTemp, interactionId,
                   ucidFromJava, ucidFromOnex, ucid, javaTask, javaValue, replies,
                   pollErrors, response, nResponses, ca, acrVars>>

\* lines 352-365: nextnotification returns
PollReturn ==
    /\ pc = "poll"
    /\ \E reply \in PollReplies :
         IF reply.kind = "error"
         THEN /\ pollErrors' = pollErrors + 1
              /\ pc' = AfterPollError
              /\ UNCHANGED <<interactionId, ucidFromOnex, replies>>
         ELSE IF PollBreaks(reply)
         THEN /\ interactionId' = JsOr(reply.ObjectId, interactionId)
              /\ ucidFromOnex' = JsOr(reply.UCID, ucidFromOnex)
              /\ replies' = [replies EXCEPT !.voice = reply]
              /\ pc' = "join"
              /\ UNCHANGED pollErrors
         ELSE /\ pc' = "sleep"
              /\ UNCHANGED <<interactionId, ucidFromOnex, replies, pollErrors>>
    /\ UNCHANGED <<req, javaBaseUrl, station, clientid, createdTemp, ucidFromJava,
                   attempts, ucid, javaTask, javaValue, issued, response, nResponses, ca, acrVars>>

\* line 366: the poll interval elapsed
SleepDone ==
    /\ pc = "sleep"
    /\ pc' = "loop"
    /\ UNCHANGED <<req, javaBaseUrl, station, clientid, createdTemp, interactionId,
                   ucidFromJava, ucidFromOnex, attempts, ucid, javaTask, javaValue,
                   issued, replies, pollErrors, response, nResponses, ca, acrVars>>

\* lines 370-384, 149-158: await javaUcidPromise, pick the ucid, call insertOnexCallLog
Join ==
    /\ pc = "join"
    /\ javaTask = "resolved"
    /\ ucidFromJava' = javaValue
    /\ ucid' = PickUcid(javaValue, ucidFromOnex)
    /\ IF CallLogSkips(interactionId, clientid)
       THEN /\ issued' = Issue("insertOnexCallLog")
            /\ pc' = "respond"
       ELSE /\ issued' = [issued EXCEPT !["insertOnexCallLog"] = @ + 1,
                                        !["callLogInsert"] = @ + 1]
            /\ pc' = "calllog"
    /\ UNCHANGED <<req, javaBaseUrl, station, clientid, createdTemp, interactionId,
                   ucidFromOnex, attempts, javaTask, javaValue, replies, pollErrors,
                   response, nResponses, ca, acrVars>>

\* lines 157-177: the insert finishes or fails; either way insertOnexCallLog resolves
CallLogReturn ==
    /\ pc = "calllog"
    /\ \E outcome \in InsertOutcomes :
         /\ replies' = [replies EXCEPT !.calllog = outcome]
         /\ pc' = AfterCallLog(outcome)
    /\ UNCHANGED <<req, javaBaseUrl, station, clientid, createdTemp, interactionId,
                   ucidFromJava, ucidFromOnex, attempts, ucid, javaTask, javaValue,
                   issued, pollErrors, response, nResponses, ca, acrVars>>

\* lines 386-393: the outcome record
Respond ==
    /\ pc = "respond"
    /\ response' = [status |-> 200, success |-> SuccessFlag(interactionId),
                    ucid |-> ucid, interactionId |-> JsOr(interactionId, NULL),
                    clientId |-> clientid, station |-> JsOr(station, NULL)]
    /\ nResponses' = nResponses + 1
    /\ pc' = "finally"
    /\ UNCHANGED <<req, javaBaseUrl, station, clientid, createdTemp, interactionId,
                   ucidFromJava, ucidFromOnex, attempts, ucid, javaTask, javaValue,
                   issued, replies, pollErrors, ca, acrVars>>

\* lines 395-397: catch
Catch ==
    /\ pc = "catch"
    /\ response' = FailureResponse(500)
    /\ nResponses' = nResponses + 1
    /\ pc' = "finally"
    /\ UNCHANGED <<req, javaBaseUrl, station, clientid, createdTemp, interactionId,
                   ucidFromJava, ucidFromOnex, attempts, ucid, javaTask, javaValue,
                   issued, replies, pollErrors, ca, acrVars>>

\* lines 398-400, 111-114: finally
Finally ==
    /\ pc = "finally"
    /\ IF FinallyUnregisters(createdTemp)
       THEN /\ issued' = Issue("unregisterclient")
            /\ pc' = "unregister"
       ELSE /\ pc' = "done"
            /\ UNCHANGED issued
    /\ UNCHANGED <<req, javaBaseUrl, station, clientid, createdTemp, interactionId,
                   ucidFromJava, ucidFromOnex, attempts, ucid, javaTask, javaValue,
                   replies, pollErrors, response, nResponses, ca, acrVars>>

\* lines 114-118: unregisterclient returns, fails, or runs into its 10 s
\* timeout; the error is logged and swallowed
UnregisterReturn ==
    /\ pc = "unregister"
    /\ \E outcome \in UnregisterOutcomes :
         /\ replies' = [replies EXCEPT !.unregister = outcome]
         /\ pc' = AfterUnregister(outcome)
    /\ UNCHANGED <<req, javaBaseUrl, station, clientid, createdTemp, interactionId,
                   ucidFromJava, ucidFromOnex, attempts, ucid, javaTask, javaValue,
                   issued, pollErrors, response, nResponses, ca, acrVars>>

Next ==
    \/ Receive
    \/ StationReturn
    \/ Ensure
    \/ RegisterReturn
    \/ Place
    \/ JavaReturn
    \/ MakecallReturn
    \/ LoopHead
    \/ PollReturn
    \/ SleepDone
    \/ Join
    \/ CallLogReturn
    \/ Respond
    \/ Catch
    \/ Finally
    \/ UnregisterReturn

Spec == Init /\ [][Next]_vars

\* every remote request returns or times out, every timer fires, and the
\* continuation of a settled await runs
SpecLive == Spec /\ WF_vars(Next)

---------------------------------------------------------------------------
(* Properties of /startcall *)

\* the requester supplied no (truthy) session id and registerclient returned one
RegisteredHere == ~Truthy(req.clientid) /\ replies.register \notin {NoReply, THROW}
                  /\ Truthy(replies.register)

\* registration (registerClient or ensureClient) threw
RegistrationThrew == replies.register # NoReply /\ EnsureRegistered(replies.register) = THROW

MakecallThrew == replies.makecall = THROW

\* the poll loop was entered and has been left
PollingEnded ==
    \/ pc \in {"join", "calllog", "respond"}
    \/ pc \in {"finally", "unregister", "done"} /\ response.status = 200

\* the value the side channel delivered, NULL if none
SideChannelValue ==
    IF replies.monitorSeen /\ replies.monitor.kind = "json" /\ replies.monitor.ok
       /\ Truthy(replies.monitor.ucid)
    THEN replies.monitor.ucid ELSE NULL

\* the correlation id the notification channel delivered, NULL if none
NotificationValue == IF Truthy(replies.voice.UCID) THEN replies.voice.UCID ELSE NULL

\* C1: when no session id was supplied and registration returned one, exactly one
\* unregister request is issued for that session on every path: never more than
\* one at any time, exactly one, for the registered id, once the handler ended,
\* and the handler never stops on any path before it has issued it.
C1_TeardownExactlyOnce ==
    /\ issued["unregisterclient"] <= 1
    /\ issued["registerclient"] <= 1
    /\ (RegisteredHere /\ pc \in {"unregister", "done"}) =>
          /\ issued["unregisterclient"] = 1
          /\ clientid = replies.register
    /\ (RegisteredHere /\ issued["unregisterclient"] = 0) => ENABLED Next

\* C1 witness: the session was registered here, makecall threw, the handler ended
\* with the failure response and one unregister was issued.
C1_Witness ==
    /\ RegisteredHere /\ MakecallThrew /\ pc = "done"
    /\ response.status = 500 /\ issued["unregisterclient"] = 1

\* C2: with a pre-existing session id no register and no unregister request is
\* ever issued, on any path.
C2_ProvidedSessionUntouched ==
    Truthy(req.clientid) =>
        /\ issued["registerclient"] = 0
        /\ issued["unregisterclient"] = 0
        /\ ~createdTemp

\* C2 witness: a supplied session id, the handler ended on the exception path.
C2_Witness ==
    /\ Truthy(req.clientid) /\ pc = "done" /\ response.status = 500
    /\ issued["makecall"] = 1

\* C3: at most UCID_POLL_MAX_ATTEMPTS polls are issued, and no poll is issued by a
\* step that starts with both an interaction id and a notification-channel
\* correlation id observed.
C3_PollBound ==
    /\ [](issued["nextnotification"] <= UCID_POLL_MAX_ATTEMPTS)
    /\ [][(Truthy(interactionId) /\ Truthy(ucidFromOnex))
            => issued'["nextnotification"] = issued["nextnotification"]]_vars

\* C3 witness: both ids were observed on a poll before the attempts ran out and
\* the handler has ended.
C3_Witness ==
    /\ Truthy(interactionId) /\ Truthy(ucidFromOnex) /\ pc = "done"
    /\ issued["nextnotification"] = 2

\* C4 as stated: polling that ended before the maximum attempt count has observed
\* both an interaction id and a notification-channel correlation id.
C4_EarlyEndOnlyWithBoth ==
    (PollingEnded /\ attempts < UCID_POLL_MAX_ATTEMPTS) =>
        (Truthy(interactionId) /\ Truthy(ucidFromOnex))

\* C4 amended: polling ends before the maximum attempt count only when a poll
\* returned a VoiceInteractionCreated notification (whichever ids it carries);
\* while fewer than the maximum attempts have been made and no such notification
\* has been received, another poll is issued.
C4_EarlyEndOnlyOnVoiceNotification ==
    /\ (PollingEnded /\ attempts < UCID_POLL_MAX_ATTEMPTS) => replies.voice.kind = "voice"
    /\ (pc = "loop" /\ attempts < UCID_POLL_MAX_ATTEMPTS) =>
          /\ replies.voice.kind # "voice"
          /\ ENABLED (LoopHead /\ pc' = "poll")
          /\ ~ENABLED (LoopHead /\ pc' = "join")

\* C4 witness: polling ended early on a notification that carries an interaction
\* id and no UCID.
C4_Witness ==
    /\ PollingEnded /\ attempts < UCID_POLL_MAX_ATTEMPTS
    /\ Truthy(replies.voice.ObjectId) /\ ~Truthy(replies.voice.UCID)

\* C5: the reported correlation id is the side-channel value if present, else the
\* notification-channel value if present, else null; and the outcome is the normal
\* response (200) whenever the call was placed, also when the id is empty.
C5_UcidPrecedence ==
    /\ response.status = 200 =>
          response.ucid = (IF SideChannelValue # NULL THEN SideChannelValue
                           ELSE IF NotificationValue # NULL THEN NotificationValue
                           ELSE NULL)
    /\ (nResponses > 0 /\ replies.makecall \notin {NoReply, THROW}) => response.status = 200

\* C5 witness: both channels delivered a value and the side-channel one is reported.
C5_Witness ==
    /\ response.status = 200 /\ SideChannelValue = "uj" /\ NotificationValue = "u1"
    /\ response.ucid = "uj"

\* C6: the success flag of a response is true iff the notification channel
\* delivered an interaction id; correlation ids play no part.
C6_SuccessIffInteraction ==
    nResponses > 0 => (response.success <=> Truthy(replies.voice.ObjectId))

\* C6 witness: success without any correlation id.
C6_Witness ==
    /\ response.status = 200 /\ response.success /\ response.ucid = NULL

\* C7: a failing poll consumes one attempt and is not fatal: polling goes on
\* while attempts remain, a later notification still gives success, and when
\* every poll failed the outcome is the normal response with success false.
C7_PollErrorNotFatal ==
    /\ attempts = issued["nextnotification"]
    /\ pollErrors <= attempts
    /\ pollErrors > 0 => pc # "catch"
    /\ (pollErrors > 0 /\ nResponses > 0) => response.status = 200
    /\ (pc = "sleep" /\ attempts < UCID_POLL_MAX_ATTEMPTS) =>
          ENABLED (SleepDone /\ pc' = "loop")
    /\ (PollingEnded /\ pollErrors = attempts) => attempts = UCID_POLL_MAX_ATTEMPTS
    /\ (response.status = 200 /\ pollErrors = attempts) => ~response.success
    /\ (response.status = 200 /\ Truthy(replies.voice.ObjectId)) => response.success

\* C7 witness: a poll failed, a later one delivered the notification, success.
C7_Witness ==
    /\ pollErrors > 0 /\ response.status = 200 /\ response.success

\* C8: when registration or makecall throws, no poll is issued, insertOnexCallLog
\* is never called, and the response is the failure outcome.
C8_ThrowAborts ==
    (RegistrationThrew \/ MakecallThrew) =>
        /\ issued["nextnotification"] = 0
        /\ issued["insertOnexCallLog"] = 0
        /\ issued["callLogInsert"] = 0
        /\ pc \in {"catch", "finally", "unregister", "done"}
        /\ nResponses > 0 => (response.status = 500 /\ ~response.success)
        /\ pc = "done" => nResponses = 1

\* C8 witness: registration threw and the failure response was sent.
C8_Witness ==
    /\ RegistrationThrew /\ pc = "done" /\ response.status = 500

\* C9 as stated: a makecall reply whose response code is not 0 never ends in a
\* success outcome.
C9_MakecallCodeHonoured ==
    replies.makecall \notin {NoReply, THROW, "0"} =>
        ~(response.status = 200 /\ response.success)

\* C11 as stated: an insert into the call-attempt table is attempted only when
\* correlation id, interaction id and session id are all non-empty.
C11_CallLogNeedsAllIds ==
    issued["callLogInsert"] > 0 =>
        (Truthy(ucid) /\ Truthy(interactionId) /\ Truthy(clientid))

\* C26: in /startcall the session is ensured before the monitor fetch is
\* started, the fetch (if any) is started no later than the makecall request,
\* makecall has returned before the first poll is issued, and the value of the
\* fetch is read only after the last poll: no poll is issued once it has been
\* read, and whether the loop polls again depends on the attempt count and on
\* the two ids of the notification channel alone.
C26_StartcallOrder ==
    /\ [](issued["monitor"] > 0 => Truthy(clientid))
    /\ [](issued["makecall"] > 0 => javaTask # "unstarted")
    /\ [](issued["nextnotification"] > 0 => replies.makecall \notin {NoReply, THROW})
    /\ []((ucidFromJava # NULL \/ ucid # NULL) => PollingEnded)
    /\ [][issued'["nextnotification"] # issued["nextnotification"]
            => (pc = "loop" /\ ucidFromJava = NULL /\ ucid = NULL)]_vars
    /\ [][(pc = "loop" /\ pc' # "loop")
            => (pc' = "poll" <=>
                   (attempts < UCID_POLL_MAX_ATTEMPTS
                    /\ (~Truthy(interactionId) \/ ~Truthy(ucidFromOnex))))]_vars

\* C26 witness: the monitor has delivered a correlation id, and the handler is
\* in its second poll without having read it.
C26_Witness ==
    /\ pc = "poll" /\ attempts = 2
    /\ javaTask = "resolved" /\ Truthy(javaValue)
    /\ ucidFromJava = NULL

\* C27 as stated: once the call is placed, a monitor request has been issued
\* if and only if a station was resolved.
C27_MonitorIffStation ==
    issued["makecall"] > 0 => (issued["monitor"] > 0 <=> Truthy(station))

\* C27 amended: at most one monitor request is issued; once the call is placed
\* one has been issued if and only if a station was resolved and the monitor's
\* base URL is configured; with no station none is ever issued and the final
\* correlation id is the notification channel's value, or null.
C27_MonitorIffStationAndUrl ==
    /\ issued["monitor"] <= 1
    /\ issued["monitor"] > 0 => issued["makecall"] > 0
    /\ issued["makecall"] > 0 =>
          (issued["monitor"] = 1 <=> (Truthy(station) /\ javaBaseUrl))
    /\ ~Truthy(station) =>
          /\ issued["monitor"] = 0
          /\ ~replies.monitorSeen
          /\ ucidFromJava = NULL
          /\ response.status = 200 =>
                (ucid = NotificationValue /\ response.ucid = NotificationValue)

\* C27 witness: no station, no monitor request, and the outcome carries the
\* correlation id of the notification.
C27_Witness ==
    /\ pc = "done" /\ ~Truthy(station) /\ javaBaseUrl
    /\ issued["monitor"] = 0 /\ response.status = 200
    /\ NotificationValue # NULL /\ response.ucid = NotificationValue

\* a request that passes the validation of the parameters and of the host
Validated == ~req.paramsMissing /\ req.hostValid

\* C28: every validated /startcall request ends, and ends with exactly one
\* response sent: never more than one, and one once the handler is over.
C28_OneResponse ==
    /\ [](nResponses <= 1)
    /\ (pc = "recv" /\ Validated) ~> (pc = "done" /\ nResponses = 1)
    /\ [](pc = "done" => nResponses = 1)

\* C28 witness: a validated request went through every poll and ended with one
\* response.
C28_Witness ==
    /\ Validated /\ pc = "done" /\ nResponses = 1
    /\ attempts = UCID_POLL_MAX_ATTEMPTS /\ response.status = 200

---------------------------------------------------------------------------
(* GET /release, /hold, /unhold, /mute, /unmute *)

\* under SpecControl no /startcall request is in progress
StartcallIdle ==
    /\ req = [paramsMissing |-> TRUE, hostValid |-> FALSE, clientid |-> NULL]
    /\ javaBaseUrl = FALSE
    /\ pc = "idle"
    /\ station = NULL
    /\ clientid = NULL
    /\ createdTemp = FALSE
    /\ interactionId = NULL
    /\ ucidFromJava = NULL
    /\ ucidFromOnex = NULL
    /\ attempts = 0
    /\ ucid = NULL
    /\ javaTask = "unstarted"
    /\ javaValue = NULL
    /\ issued = [e \in Endpoints |-> 0]
    /\ replies = [register |-> NoReply, makecall |-> NoReply,
                  monitor |-> MonitorError, monitorSeen |-> FALSE, voice |-> NoVoice,
                  calllog |-> NoReply, unregister |-> NoReply]
    /\ pollErrors = 0
    /\ response = NoResponse
    /\ nResponses = 0

InitControl ==
    /\ StartcallIdle
    /\ AcrIdle
    /\ \E action \in ControlActions, q \in ControlQueries : ca = CaStart(action, q)

\* the 400 guard, buildBaseUrl, then ensureClient up to its first await
CaReceive ==
    /\ ca.pc = "recv"
    /\ ca' = IF CaMissingParams(ca.action, ca.q)
             THEN [ca EXCEPT !.pc = "done",
                             !.response = [CaNoResponse EXCEPT !.status = 400],
                             !.nResponses = @ + 1]
             ELSE IF ~ca.q.hostValid
             THEN [ca EXCEPT !.pc = "catch"]
             ELSE IF UsesProvided(ca.q.clientid)
             THEN [ca EXCEPT !.pc = "act", !.clientid = ca.q.clientid,
                             !.createdTemp = FALSE]
             ELSE [ca EXCEPT !.pc = "register", !.registers = @ + 1]
    /\ UNCHANGED <<scVars, acrVars>>

\* registerclient returns
CaRegisterReturn ==
    /\ ca.pc = "register"
    /\ \E reg \in RegisterReplies :
         ca' = IF EnsureRegistered(reg) = THROW
               THEN [ca EXCEPT !.pc = "catch", !.registerReply = reg]
               ELSE [ca EXCEPT !.pc = "act", !.registerReply = reg,
                               !.clientid = EnsureRegistered(reg),
                               !.createdTemp = TRUE]
    /\ UNCHANGED <<scVars, acrVars>>

\* oneXVoiceAction issues /voice/{action}
CaAct ==
    /\ ca.pc = "act"
    /\ ca' = [ca EXCEPT !.pc = "voice", !.voiceRequests = @ + 1]
    /\ UNCHANGED <<scVars, acrVars>>

\* /voice/{action} returns; on a parsed reply insertOnexActionLog is called
CaVoiceReturn ==
    /\ ca.pc = "voice"
    /\ \E reply \in VoiceActionReplies :
         ca' = IF reply = THROW
               THEN [ca EXCEPT !.pc = "catch", !.reply = reply]
               ELSE [ca EXCEPT !.pc = "log", !.reply = reply, !.code = reply,
                               !.ok = CaIsOk(reply),
                               !.logs = Append(@, insertOnexActionLog(ca.action,
                                          CaLoggedInteraction(ca.action, ca.q.interactionid),
                                          CaIsOk(reply)))]
    /\ UNCHANGED <<scVars, acrVars>>

\* the awaited insert finishes or fails (the error is logged and swallowed)
CaLogReturn ==
    /\ ca.pc = "log"
    /\ \E outcome \in InsertOutcomes :
         ca' = [ca EXCEPT !.pc = "respond", !.logOutcome = outcome]
    /\ UNCHANGED <<scVars, acrVars>>

\* the response after the log: 502 when !ok, else 200
CaRespond ==
    /\ ca.pc = "respond"
    /\ ca' = [ca EXCEPT !.pc = "finally",
                        !.response = IF ~ca.ok
                                     THEN CaNotOkResponse(ca.action, ca.code, ca.clientid,
                                                          ca.q.interactionid)
                                     ELSE CaOkResponse(ca.action, ca.code, ca.clientid,
                                                       ca.q.interactionid),
                        !.nResponses = @ + 1]
    /\ UNCHANGED <<scVars, acrVars>>

\* catch: the failed action is logged
CaCatch ==
    /\ ca.pc = "catch"
    /\ ca' = [ca EXCEPT !.pc = "catchlog",
                        !.logs = Append(@, insertOnexActionLog(ca.action,
                                   CaLoggedInteraction(ca.action, ca.q.interactionid),
                                   FALSE))]
    /\ UNCHANGED <<scVars, acrVars>>

\* catch: the awaited insert finishes or fails, then the 500 response is sent
CaCatchRespond ==
    /\ ca.pc = "catchlog"
    /\ \E outcome \in InsertOutcomes :
         ca' = [ca EXCEPT !.pc = "finally", !.response = CaErrorResponse,
                          !.nResponses = @ + 1, !.logOutcome = outcome]
    /\ UNCHANGED <<scVars, acrVars>>

\* finally: if (createdTemp) unregisterClient(...)
CaFinally ==
    /\ ca.pc = "finally"
    /\ ca' = IF FinallyUnregisters(ca.createdTemp)
             THEN [ca EXCEPT !.pc = "unregister", !.unregisters = @ + 1]
             ELSE [ca EXCEPT !.pc = "done"]
    /\ UNCHANGED <<scVars, acrVars>>

\* unregisterclient returns or fails; the error is swallowed
CaUnregisterReturn ==
    /\ ca.pc = "unregister"
    /\ ca' = [ca EXCEPT !.pc = "done"]
    /\ UNCHANGED <<scVars, acrVars>>

NextControl ==
    \/ CaReceive
    \/ CaRegisterReturn
    \/ CaAct
    \/ CaVoiceReturn
    \/ CaLogReturn
    \/ CaRespond
    \/ CaCatch
    \/ CaCatchRespond
    \/ CaFinally
    \/ CaUnregisterReturn

SpecControl == InitControl /\ [][NextControl]_vars

---------------------------------------------------------------------------
(* Properties of the control actions *)

\* C10: for each control action, remote code 0 gives the success response; any
\* other code gives a failure response that carries that code and has a status
\* (502) different from the one (500) sent when the remote request throws.
C10_LogicalFailureDistinct ==
    ca.nResponses > 0 =>
        /\ ca.reply = "0" => (ca.response.status = 200 /\ ca.response.success
                               /\ ca.response.code = "0")
        /\ ca.reply \notin {NoReply, THROW, "0"} =>
              /\ ca.response.status = 502
              /\ ~ca.response.success
              /\ ca.response.code = ca.reply
        /\ ca.reply = THROW => (ca.response.status = 500 /\ ~ca.response.success)
        /\ ca.response.status = 502 => ca.reply \notin {NoReply, THROW, "0"}
        /\ ca.response.status = 200 => ca.reply = "0"

\* C10 witness: a remote-reported failure, answered 502 with the remote code.
C10_Witness ==
    /\ ca.pc = "done" /\ ca.action = "unmute" /\ ca.reply = "2"
    /\ ca.response.status = 502 /\ ca.response.code = "2"

\* C14 as stated: every control-action request results in an action audit write
\* whose success flag is true exactly when the remote response code was 0.
C14_EveryRequestLogged ==
    ca.pc = "done" =>
        /\ Len(ca.logs) = 1
        /\ ca.logs[1].success <=> ca.reply = "0"

\* C14 amended: every control-action request that passes parameter validation
\* results in exactly one action audit write, for that action, whose success flag
\* is true exactly when the remote response code was 0; a request rejected for
\* missing parameters writes none.
C14_ValidatedRequestLogged ==
    /\ Len(ca.logs) <= 1
    /\ CaMissingParams(ca.action, ca.q) => Len(ca.logs) = 0
    /\ (ca.nResponses > 0 /\ ~CaMissingParams(ca.action, ca.q)) =>
          /\ Len(ca.logs) = 1
          /\ ca.logs[1].action = ca.action
          /\ ca.logs[1].success <=> ca.reply = "0"
          /\ ca.logs[1].success <=> ca.response.status = 200

\* C14 witness: the remote request threw and the failed action was logged.
C14_Witness ==
    /\ ca.pc = "done" /\ ca.reply = THROW /\ Len(ca.logs) = 1
    /\ ~ca.logs[1].success /\ ca.action = "mute"

---------------------------------------------------------------------------
(* GET /find, /replayByUcid, /searchByNumber of api/acr.js *)

Routes == {"find", "replayByUcid", "searchByNumber"}

\* query values
Keys == {<< >>, <<" ">>, <<"7">>}
GoodDate == <<"2", "0", "2", "4", "-", "0", "1", "-", "1", "5">>
LeapDay == <<"2", "0", "2", "4", "-", "0", "2", "-", "2", "9">>
StartDates ==
    {<< >>, GoodDate,
     <<"2", "0", "2", "4", "-", "1", "3", "-", "0", "1">>,
     <<"2", "0", "2", "3", "-", "0", "2", "-", "2", "9">>,
     <<"2", "0", "2", "4", "-", "1", "-", "1", "5">>}
EndDates ==
    {Absent, Given(LeapDay),
     Given(<<"2", "0", "2", "4", "-", "0", "2", "-", "3", "0">>)}
WindowDays == {Absent, Given(<<"3">>), Given(<<"0">>), Given(<<"-", "2">>), Given(<<"x">>)}
Limits == {Absent, Given(<<"0">>), Given(<<"1">>), Given(<<"2">>), Given(<<"-", "1">>), Given(<<"x">>)}
Redirects == {Absent, Given(<<"1">>)}
Locals == {Absent, Given(<<"1">>), Given(<<"0">>)}

\* the date part of the queries: every start date, end date and window size,
\* a window size next to an end date being "0" or absent
DateQueries ==
    {d \in [startdate : StartDates, enddate : EndDates, windowDays : WindowDays] :
        d.enddate.given => d.windowDays \in {Absent, Given(<<"0">>)}}

NoAcrResponse == [status |-> 0, found |-> 0, items |-> << >>, kind |-> "none",
                  location |-> NoUrl]

ArStart(route, key, d, limit, redirect, local, useLocalDefault) ==
    [pc |-> "start", route |-> route, key |-> key, startdate |-> d.startdate,
     enddate |-> d.enddate, windowDays |-> d.windowDays, limit |-> limit,
     redirect |-> redirect, local |-> local, useLocalDefault |-> useLocalDefault,
     replied |-> "no", results |-> << >>, searches |-> 0, proxies |-> 0,
     inserts |-> << >>, rejected |-> FALSE,
     response |-> NoAcrResponse, nResponses |-> 0, unsettled |-> 0]

\* res.status(...).json/send(...) of a failure
AcrError(status) ==
    [status |-> status, found |-> 0, items |-> << >>, kind |-> "error", location |-> NoUrl]

\* the inserts that have not settled
PendingInserts(a) == {i \in DOMAIN a.inserts : a.inserts[i].state = "pending"}

\* the response is sent; unsettled records how many inserts were pending then
AcrRespond(a, resp) ==
    [a EXCEPT !.pc = "done", !.response = resp, !.nResponses = @ + 1,
              !.unsettled = Cardinality(PendingInserts(a))]

\* variant: the caller awaits the insert
insertAcrRowAwaited(a, payload) ==
    [a EXCEPT !.inserts = Append(@, [inum |-> payload.inum,
                                     started_at |-> payload.started_at,
                                     playback_url |-> payload.playback_url,
                                     state |-> "ok"])]

\* insertAcrRow(payload, ctx), not awaited: the insert is left pending
insertAcrRow(a, payload) ==
    [a EXCEPT !.inserts = Append(@, [inum |-> payload.inum,
                                     started_at |-> payload.started_at,
                                     playback_url |-> payload.playback_url,
                                     state |-> "pending"])]

RECURSIVE insertEach(_, _)
insertEach(a, payloads) ==
    IF payloads = << >> THEN a
    ELSE insertEach(insertAcrRow(a, Head(payloads)), Tail(payloads))

\* the raw replay URL of buildReplayUrls
RawUrl(inum) == <<"?command=replay&id=">> \o encodeURIComponent(inum)

\* the three handlers up to the archive search: missing parameters and
\* computeRangeFromQuery
MissingParams(a) == Trim(a.key) = << >> \/ Trim(a.startdate) = << >>

AcrReceive ==
    /\ ar.pc = "start"
    /\ LET range == computeRangeFromQuery(Trim(ar.startdate), ar.enddate, ar.windowDays)
       IN  ar' = IF MissingParams(ar) THEN AcrRespond(ar, AcrError(400))
                 ELSE IF range # "ok" THEN AcrRespond(ar, AcrError(CatchStatus(range)))
                 ELSE [ar EXCEPT !.pc = "search", !.searches = @ + 1]
    /\ UNCHANGED <<scVars, ca, sf, sw, rs, files, hist>>

\* the search request throws, or its body cannot be parsed
AcrSearchFails ==
    /\ ar.pc = "search"
    /\ ar' = AcrRespond([ar EXCEPT !.replied = "error"], AcrError(CatchStatus("network")))
    /\ UNCHANGED <<scVars, ca, sf, sw, rs, files, hist>>

\* variant: the identifier of the first record is not checked
FindReturnUnchecked(a, results) ==
    IF results = << >>
    THEN AcrRespond(a, [status |-> 200, found |-> 0, items |-> << >>, kind |-> "items",
                        location |-> NoUrl])
    ELSE AcrRespond(insertAcrRow(a, mapResultFields(results[1])),
                    [status |-> 200, found |-> Len(results),
                     items |-> <<mapResultFields(results[1])>>,
                     kind |-> "item", location |-> NoUrl])

\* /find after the search
FindReturn(a, results) ==
    IF results = << >>
    THEN AcrRespond(a, [status |-> 200, found |-> 0, items |-> << >>, kind |-> "items",
                        location |-> NoUrl])
    ELSE IF results[1].inum = NoInum THEN AcrRespond(a, AcrError(502))
    ELSE LET payload == mapResultFields(results[1])
         IN  AcrRespond(insertAcrRow(a, payload),
                        [status |-> 200, found |-> Len(results), items |-> <<payload>>,
                         kind |-> "item", location |-> NoUrl])

AcrFindReturn ==
    /\ ar.pc = "search" /\ ar.route = "find"
    /\ \E results \in UcidReplies :
         ar' = FindReturn([ar EXCEPT !.replied = "results", !.results = results], results)
    /\ UNCHANGED <<scVars, ca, sf, sw, rs, files, hist>>

\* /searchByNumber after the search.  With no limit and no item left,
\* items[0] is undefined: insertAcrRow(undefined) rejects before it reaches the
\* database (nobody handles the rejection) and first.inum throws a TypeError
\* that the catch block answers with 502.
SearchByNumberReturn(a, results) ==
    LET items == SortItems(MapAndFilter(results))
        total == Len(items)
        limit == LimitOf(a.limit)
        limited == Slice(items, limit)
    IN  IF results = << >>
        THEN AcrRespond(a, [status |-> 200, found |-> 0, items |-> << >>,
                            kind |-> "items", location |-> NoUrl])
        ELSE IF limit <= 0
        THEN (IF items = << >>
              THEN AcrRespond([a EXCEPT !.rejected = TRUE],
                              AcrError(CatchStatus("TypeError")))
              ELSE AcrRespond(insertAcrRow(a, items[1]),
                              [status |-> 200, found |-> total, items |-> <<items[1]>>,
                               kind |-> "item", location |-> NoUrl]))
        ELSE AcrRespond(insertEach(a, limited),
                        [status |-> 200, found |-> total, items |-> limited,
                         kind |-> "items", location |-> NoUrl])

AcrSearchByNumberReturn ==
    /\ ar.pc = "search" /\ ar.route = "searchByNumber"
    /\ \E results \in NumberReplies :
         ar' = SearchByNumberReturn([ar EXCEPT !.replied = "results", !.results = results],
                                    results)
    /\ UNCHANGED <<scVars, ca, sf, sw, rs, files, hist>>

\* redirect === '1' || redirect === 'true'
WantsRedirect(redirect) ==
    redirect.given /\ redirect.s \in {<<"1">>, <<"t", "r", "u", "e">>}

\* /^1|true$/i.test(String(local)), or USE_LOCAL_DEFAULT when local is undefined
PreferLocal(local, useLocalDefault) ==
    IF ~local.given THEN useLocalDefault
    ELSE \/ local.s # << >> /\ Head(local.s) = "1"
         \/ /\ Len(local.s) >= 4
            /\ LET last == SubSeq(local.s, Len(local.s) - 3, Len(local.s))
               IN  /\ last[1] \in {"t", "T"} /\ last[2] \in {"r", "R"}
                   /\ last[3] \in {"u", "U"} /\ last[4] \in {"e", "E"}

\* replayHandler up to its await: an audit row for the identifier, then the
\* proxied request to the archive
replayHandler(a, inum) ==
    [insertAcrRow(a, [inum |-> inum, started_at |-> 0,
                      playback_url |-> buildReplayUrls(inum)])
        EXCEPT !.pc = "proxy", !.proxies = @ + 1]

\* /replayByUcid after the search: 404, 502, or the audit row followed by the
\* redirect, the local file or the proxy
AcrReplayByUcidReturn ==
    /\ ar.pc = "search" /\ ar.route = "replayByUcid"
    /\ \E results \in UcidReplies :
         LET a == [ar EXCEPT !.replied = "results", !.results = results] IN
         IF results = << >>
         THEN ar' = AcrRespond(a, AcrError(404)) /\ UNCHANGED <<rs, files, hist>>
         ELSE IF results[1].inum = NoInum
         THEN ar' = AcrRespond(a, AcrError(502)) /\ UNCHANGED <<rs, files, hist>>
         ELSE LET inum == results[1].inum
                  logged == insertAcrRow(a, mapResultFields(results[1]))
              IN  IF WantsRedirect(ar.redirect)
                  THEN /\ ar' = AcrRespond(logged, [status |-> 302, found |-> 0,
                                                    items |-> << >>, kind |-> "redirect",
                                                    location |-> RawUrl(inum)])
                       /\ UNCHANGED <<rs, files, hist>>
                  ELSE IF PreferLocal(ar.local, ar.useLocalDefault)
                  THEN /\ ar' = [logged EXCEPT !.pc = "resolve"]
                       /\ ensureLocalWav(1, inum)
                  ELSE /\ ar' = replayHandler(logged, inum)
                       /\ UNCHANGED <<rs, files, hist>>
    /\ UNCHANGED <<scVars, ca, sf, sw>>

\* variant: a failed ensureLocalWav is answered with the upstream error
LocalWavFailedSurfaced(a, inum) == AcrRespond(a, AcrError(502))

\* the catch around ensureLocalWav logs 'local WAV failed, fallback' and the
\* handler goes on to replayHandler
LocalWavFailed(a, inum) == replayHandler(a, inum)

\* /replayByUcid after ensureLocalWav: streamFile of the wav, or on a failure
\* the fallback to replayHandler
AcrResolveReturn ==
    /\ ar.pc = "resolve"
    /\ rs[1].pc \in {"returned", "threw"}
    /\ ar' = IF rs[1].pc = "returned"
             THEN AcrRespond(ar, [status |-> 200, found |-> 0, items |-> << >>,
                                  kind |-> "wav",
                                  location |-> safeName(rs[1].inum) \o <<".wav">>])
             ELSE LocalWavFailed(ar, rs[1].inum)
    /\ UNCHANGED <<scVars, ca, sf, sw, rs, files, hist>>

\* replayHandler after its await: the status of the archive is passed on, or
\* 502 when the request threw
ProxyStatuses == {200, 404}
AcrProxyReturn ==
    /\ ar.pc = "proxy"
    /\ \/ \E status \in ProxyStatuses :
            ar' = AcrRespond(ar, [status |-> status, found |-> 0, items |-> << >>,
                                  kind |-> "proxy", location |-> NoUrl])
       \/ ar' = AcrRespond(ar, AcrError(502))
    /\ UNCHANGED <<scVars, ca, sf, sw, rs, files, hist>>

\* insertAcrRow settles: the row is inserted, or connect/insert failed and
\* the error is logged
AcrInsertReturn ==
    /\ ar.pc # "idle"
    /\ \E i \in DOMAIN ar.inserts, outcome \in InsertOutcomes :
         /\ ar.inserts[i].state = "pending"
         /\ ar' = [ar EXCEPT !.inserts[i].state = outcome]
    /\ UNCHANGED <<scVars, ca, sf, sw, rs, files, hist>>

\* one archive request arrives; the cache directory may hold the recording
\* already
InitAcr ==
    /\ StartcallIdle
    /\ ca = CaIdle
    /\ MediaIdle
    /\ rs = [p \in Callers |-> NoCall]
    /\ hist = NoHistory
    /\ \E key \in Keys, d \in DateQueries :
         \/ /\ ar = ArStart("find", key, d, Absent, Absent, Absent, TRUE)
            /\ files = [n \in SafeNames |-> NoFile]
         \/ /\ \E limit \in Limits :
                 ar = ArStart("searchByNumber", key, d, limit, Absent, Absent, TRUE)
            /\ files = [n \in SafeNames |-> NoFile]
         \/ /\ \E redirect \in Redirects, local \in Locals, useLocalDefault \in BOOLEAN :
                 /\ local.given => useLocalDefault
                 /\ ar = ArStart("replayByUcid", key, d, Absent, redirect, local,
                                 useLocalDefault)
            /\ files \in [SafeNames -> {NoFile, CachedFile}]

NextAcr ==
    \/ AcrReceive
    \/ AcrSearchFails
    \/ AcrFindReturn
    \/ AcrSearchByNumberReturn
    \/ AcrReplayByUcidReturn
    \/ AcrResolveReturn
    \/ AcrProxyReturn
    \/ AcrInsertReturn
    \/ \E p \in Callers : DownloadReturn(p)
    \/ \E p \in Callers : PipeReturn(p)
    \/ \E p \in Callers : TranscodeOpen(p)
    \/ \E p \in Callers : TranscodeWrite(p)
    \/ \E p \in Callers : TranscodeReturn(p)

SpecAcr == InitAcr /\ [][NextAcr]_vars

---------------------------------------------------------------------------
(* The cache of transcoded recordings: calls of ensureLocalWav made by       *)
(* /replayByUcid requests, and the periodic sweep                            *)

MaxCalls == 2

InitCache ==
    /\ StartcallIdle
    /\ ca = CaIdle
    /\ MediaIdle
    /\ ar = ArIdle
    /\ rs = [p \in Callers |-> NoCall]
    /\ files \in [SafeNames -> {NoFile, CachedFile}]
    /\ hist = NoHistory

\* a /replayByUcid request that prefers the local file reaches ensureLocalWav
CacheCall(p, inum) ==
    /\ rs[p].pc \notin InFlight
    /\ hist.started < MaxCalls
    /\ ensureLocalWav(p, inum)
    /\ UNCHANGED <<scVars, ca, sf, sw, ar>>

NextCache ==
    \/ \E p \in Callers, inum \in Inums : CacheCall(p, inum)
    \/ \E p \in Callers : DownloadReturn(p)
    \/ \E p \in Callers : PipeReturn(p)
    \/ \E p \in Callers : TranscodeOpen(p)
    \/ \E p \in Callers : TranscodeWrite(p)
    \/ \E p \in Callers : TranscodeReturn(p)
    \/ cleanupOldMedia

SpecCache == InitCache /\ [][NextCache]_vars

---------------------------------------------------------------------------
(* One run of cleanupOldMedia *)

InitSweep ==
    /\ StartcallIdle
    /\ ca = CaIdle
    /\ ArchiveIdle
    /\ sf = SfIdle
    /\ \E dir \in [DirNames -> DirEntries] :
         sw = [pc |-> "ready", now |-> SweepNow, before |-> dir, dir |-> dir,
               readdirFailed |-> FALSE, failing |-> NoName, removed |-> 0]

\* cleanupOldMedia, from the timer or at start: one synchronous pass over the
\* directory; readdirSync may throw, and so may statSync or unlinkSync of a file
cleanupOldMediaRun ==
    /\ sw.pc = "ready"
    /\ \/ sw' = [sw EXCEPT !.pc = "done", !.readdirFailed = TRUE]
       \/ \E failing \in DirNames \cup {NoName} :
            LET cutoff == sw.now - RetentionMs
                after == Swept(sw.dir, cutoff, failing)
            IN  sw' = [sw EXCEPT !.pc = "done", !.dir = after, !.failing = failing,
                                 !.removed = Cardinality({n \in DirNames :
                                                sw.dir[n].present /\ ~after[n].present})]
    /\ UNCHANGED <<scVars, ca, ar, rs, files, hist, sf>>

NextSweep == cleanupOldMediaRun

SpecSweep == InitSweep /\ [][NextSweep]_vars

---------------------------------------------------------------------------
(* streamFile on its own *)

\* streamFile is called for a file of some size with some Range header
InitStream ==
    /\ StartcallIdle
    /\ ca = CaIdle
    /\ ArchiveIdle
    /\ sw = SwIdle
    /\ \E total \in 0..MaxSize, range \in RangeHeaders :
         sf = [pc |-> "call", total |-> total, range |-> range, res |-> NoStream]

StreamFile ==
    /\ sf.pc = "call"
    /\ sf' = [sf EXCEPT !.pc = "done", !.res = streamFile(sf.total, sf.range)]
    /\ UNCHANGED <<scVars, ca, ar, rs, files, hist, sw>>

NextStream == StreamFile

SpecStream == InitStream /\ [][NextStream]_vars

---------------------------------------------------------------------------
(* Any one request: /startcall, a control action or an archive request *)

InitAll ==
    \/ Init
    \/ InitControl
    \/ InitAcr

NextAll ==
    \/ Next
    \/ NextControl
    \/ NextAcr

SpecAll == InitAll /\ [][NextAll]_vars

---------------------------------------------------------------------------
(* Claims about the archive endpoints *)

\* a /searchByNumber request whose search returned a parsable answer
SearchAnswered == ar.route = "searchByNumber" /\ ar.replied = "results"

\* the archive records that carry an identifier
IdRecords == {i \in DOMAIN ar.results : ar.results[i].inum # NoInum}

\* the limits of the requests that are positive numbers
PositiveLimits == {[param |-> Given(<<"1">>), n |-> 1], [param |-> Given(<<"2">>), n |-> 2]}
ZeroLikeLimits == {Absent, Given(<<"0">>), Given(<<"-", "1">>), Given(<<"x">>)}

\* items are taken from distinct identifier-bearing records, and every such
\* record left out is no newer than any item
NewestOf(items) ==
    \E f \in [1..Len(items) -> IdRecords] :
        /\ \A i, j \in 1..Len(items) : i # j => f[i] # f[j]
        /\ \A i \in 1..Len(items) :
             /\ items[i].inum = ar.results[f[i]].inum
             /\ items[i].started_at = ar.results[f[i]].startedat
        /\ \A k \in IdRecords \ {f[i] : i \in 1..Len(items)} :
             \A i \in 1..Len(items) : ar.results[k].startedat <= items[i].started_at

\* C15: for /searchByNumber with limit = L > 0 the returned items are the
\* first min(L, n) of the n identifier-bearing records in order of start time,
\* newest first.
C15_LimitedNewestFirst ==
    \A l \in PositiveLimits :
        (SearchAnswered /\ ar.limit = l.param) =>
            LET items == ar.response.items
                n == Cardinality(IdRecords)
            IN  /\ ar.response.status = 200
                /\ Len(items) = (IF l.n < n THEN l.n ELSE n)
                /\ \A i, j \in 1..Len(items) :
                     i < j => items[i].started_at >= items[j].started_at
                /\ NewestOf(items)

\* C15 witness: start times 1 < 2 < 3 and limit=2 give the items [3, 2].
C15_Witness ==
    /\ SearchAnswered /\ ar.limit = Given(<<"2">>)
    /\ Len(ar.results) = 3
    /\ \A i \in 1..3 : ar.results[i] = [inum |-> InumA, startedat |-> i]
    /\ Len(ar.response.items) = 2
    /\ ar.response.items[1].started_at = 3
    /\ ar.response.items[2].started_at = 2

\* C16 as stated: for /searchByNumber with a limit that is zero, absent,
\* negative or non-numeric and at least one archive record, the response is a
\* success carrying exactly one item, the newest record that has an
\* identifier.
C16_SingleNewest ==
    (SearchAnswered /\ ar.limit \in ZeroLikeLimits /\ ar.results # << >>) =>
        /\ ar.response.status = 200
        /\ Len(ar.response.items) = 1
        /\ NewestOf(ar.response.items)

\* C17: in /searchByNumber a record without identifier is dropped before the
\* sort and the count: the found count of a search response is the number of
\* archive records that carry an identifier, and no item lacks one.
C17_FoundCountsIdentified ==
    SearchAnswered =>
        /\ ar.response.status = 200 => ar.response.found = Cardinality(IdRecords)
        /\ \A i \in DOMAIN ar.response.items : ar.response.items[i].inum # NoInum
        /\ Len(ar.response.items) <= Cardinality(IdRecords)

\* C17 witness: three records, one without identifier, reported as found 2.
C17_Witness ==
    /\ SearchAnswered /\ ar.response.status = 200
    /\ Len(ar.results) = 3 /\ ar.results[2].inum = NoInum
    /\ ar.response.found = 2 /\ Len(ar.response.items) = 2

\* C18: on /find, /replayByUcid and /searchByNumber a record without
\* identifier gets no audit insert, no playback URL and no download or
\* transcode.
C18_NothingWithoutInum ==
    ar.replied = "results" =>
        /\ \A i \in DOMAIN ar.inserts : ar.inserts[i].inum # NoInum
        /\ Len(ar.inserts) <= 2 * Cardinality(IdRecords)
        /\ \A i \in DOMAIN ar.response.items :
             /\ ar.response.items[i].inum # NoInum
             /\ ar.response.items[i].playback_url # buildReplayUrls(NoInum)
        /\ \A p \in Callers : rs[p].pc # "idle" => rs[p].inum # NoInum
        /\ (ar.route \in {"find", "replayByUcid"} /\ ar.results # << >>
               /\ ar.results[1].inum = NoInum) =>
              /\ ar.inserts = << >>
              /\ ar.response.status = 502
              /\ ar.response.items = << >> /\ ar.response.location = NoUrl
              /\ ar.proxies = 0
              /\ \A p \in Callers : rs[p].pc = "idle"

\* C18 witness: /replayByUcid, local file preferred, the record has no
\* identifier.
C18_Witness ==
    /\ ar.route = "replayByUcid" /\ ar.replied = "results" /\ ar.pc = "done"
    /\ PreferLocal(ar.local, ar.useLocalDefault) /\ ~WantsRedirect(ar.redirect)
    /\ ar.results # << >> /\ ar.results[1].inum = NoInum

\* the dates of the requests that are real calendar days
ValidDates == {GoodDate, LeapDay}
MalformedStart == Trim(ar.startdate) # << >> /\ Trim(ar.startdate) \notin ValidDates
MalformedEnd == ar.enddate.given /\ ar.enddate.s \notin ValidDates
BadWindow == ar.windowDays \in {Given(<<"0">>), Given(<<"-", "2">>), Given(<<"x">>)}

\* the request is answered 400 and nothing was sent to the archive or to the
\* audit table
RejectedUnsent ==
    /\ ar.pc \in {"start", "done"}
    /\ ar.pc = "done" => ar.response.status = 400
    /\ ar.searches = 0 /\ ar.proxies = 0
    /\ ar.inserts = << >>
    /\ \A p \in Callers : rs[p].pc = "idle"

---------------------------------------------------------------------------
(* Claims about the cache *)

\* the call found a non-empty transcoded file when it entered
SawNonEmptyWav(call) == call.sawWav = "nonempty"

\* C20: ensureLocalWav is idempotent for sequential calls.  A call that finds
\* a non-empty transcoded file for the identifier returns it without a download
\* and without starting the transcoder, and a call that finds none returns only
\* after one download and one transcode; hence of two successful calls for the
\* same identifier made one after the other, with no sweep in between, the
\* second does neither, and the two together do exactly one download and one
\* transcode when the first found no file.
C20_ResolveIdempotent ==
    /\ \A p \in Callers : rs[p].pc \in InFlight => ~SawNonEmptyWav(rs[p])
    /\ \A i \in DOMAIN hist.calls :
         LET c == hist.calls[i] IN
         /\ SawNonEmptyWav(c) =>
               (c.outcome = "returned" /\ c.downloads = 0 /\ c.transcodes = 0)
         /\ (~SawNonEmptyWav(c) /\ c.outcome = "returned") =>
               (c.downloads = 1 /\ c.transcodes = 1)
    /\ (~hist.overlapped /\ ~hist.swept) =>
         \A i \in DOMAIN hist.calls :
            (/\ i + 1 \in DOMAIN hist.calls
             /\ hist.calls[i].outcome = "returned"
             /\ hist.calls[i + 1].outcome = "returned"
             /\ hist.calls[i].inum = hist.calls[i + 1].inum) =>
                /\ hist.calls[i + 1].downloads = 0
                /\ hist.calls[i + 1].transcodes = 0
                /\ ~SawNonEmptyWav(hist.calls[i]) =>
                     /\ hist.calls[i].downloads + hist.calls[i + 1].downloads = 1
                     /\ hist.calls[i].transcodes + hist.calls[i + 1].transcodes = 1

\* C20 witness: two calls for one identifier, one after the other, both
\* successful: the first downloaded and transcoded, the second did neither.
C20_Witness ==
    /\ ~hist.overlapped /\ ~hist.swept
    /\ Len(hist.calls) = 2
    /\ hist.calls[1].inum = InumA /\ hist.calls[2].inum = InumA
    /\ hist.calls[1].outcome = "returned" /\ hist.calls[2].outcome = "returned"
    /\ hist.calls[1].downloads = 1 /\ hist.calls[1].transcodes = 1
    /\ hist.calls[2].downloads = 0 /\ hist.calls[2].transcodes = 0

\* the calls that have ended, in the order in which they ended
EndedCalls == {hist.calls[i] : i \in DOMAIN hist.calls}

\* an ended call that found no usable file and returned the wav path
ResolvedMiss(c) == c.outcome = "returned" /\ ~SawNonEmptyWav(c)

\* C21: in ensureLocalWav a download answered with a status below 200 or of
\* at least 400 fails the call before the body is piped and before the
\* transcoder is started, and a transcoder exit code other than 0 fails the
\* call; a call that failed wrote no metadata sidecar and deleted nothing, and
\* a call returns the path after a miss only when the transcoder closed with 0.
C21_HardFailures ==
    /\ \A p \in Callers :
         rs[p].pc \in {"pipe", "transcode", "transcoding"} =>
            (rs[p].status >= 200 /\ rs[p].status < 400)
    /\ \A c \in EndedCalls :
         /\ c.error = "ACR GET failed" =>
               /\ c.outcome = "threw"
               /\ c.transcodes = 0
               /\ c.steps = <<"download">>
         /\ (c.exit.kind = "close" /\ c.exit.code # 0) => c.outcome = "threw"
         /\ c.outcome = "threw" =>
               /\ c.metaWrite = "none"
               /\ c.unlink = "none"
         /\ ResolvedMiss(c) => c.exit = [kind |-> "close", code |-> 0]
         /\ c.metaWrite # "none" => c.exit = [kind |-> "close", code |-> 0]

\* C21 witness: one call failed on the download status without a transcode,
\* another on the transcoder's exit code; neither wrote a sidecar.
C21_Witness ==
    /\ Len(hist.calls) = 2
    /\ hist.calls[1].error = "ACR GET failed" /\ hist.calls[1].transcodes = 0
    /\ hist.calls[2].exit = [kind |-> "close", code |-> 1]
    /\ hist.calls[1].outcome = "threw" /\ hist.calls[2].outcome = "threw"
    /\ \A n \in SafeNames : ~files[n].meta

\* C29 as stated: after a successful cache-miss ensureLocalWav the steps ran in
\* the order download, transcode, metadata write, raw delete, and until a sweep
\* the transcoded file and the sidecar are present and the raw file is absent.
C29_ResolvedStateComplete ==
    \A c \in EndedCalls :
       ResolvedMiss(c) =>
          /\ c.steps = <<"download", "transcode", "meta", "unlink">>
          /\ ~hist.swept =>
                /\ files[safeName(c.inum)].wav = "ok"
                /\ files[safeName(c.inum)].meta
                /\ files[safeName(c.inum)].raw = "absent"

\* C29 amended: after a successful cache-miss ensureLocalWav the steps ran in
\* the order download, transcode, metadata write, raw delete; when no call for
\* the same file name overlapped another, then until a sweep the transcoded
\* file is present and complete, the sidecar is present if its write succeeded
\* and the raw file is absent if its delete succeeded.
C29_ResolvedStateBestEffort ==
    \A c \in EndedCalls :
       ResolvedMiss(c) =>
          /\ c.steps = <<"download", "transcode", "meta", "unlink">>
          /\ (~hist.overlapped /\ ~hist.swept) =>
                /\ files[safeName(c.inum)].wav = "ok"
                /\ c.metaWrite = "ok" => files[safeName(c.inum)].meta
                /\ c.unlink = "ok" => files[safeName(c.inum)].raw = "absent"

\* C29 witness: a miss was resolved with all four steps succeeding, and a later
\* call for the same file found it; wav and sidecar present, raw absent.
C29_Witness ==
    /\ ~hist.overlapped /\ ~hist.swept
    /\ Len(hist.calls) = 2
    /\ ResolvedMiss(hist.calls[1])
    /\ hist.calls[1].metaWrite = "ok" /\ hist.calls[1].unlink = "ok"
    /\ hist.calls[2].outcome = "returned" /\ SawNonEmptyWav(hist.calls[2])
    /\ files[safeName(hist.calls[1].inum)] = CachedFile

\* C30: in ensureLocalWav, once the transcoder closed with 0 the call returns
\* the path whether the metadata write and the raw delete succeed or fail, and
\* the raw delete is attempted after a failed metadata write too.
C30_SidecarBestEffort ==
    \A c \in EndedCalls :
       c.exit = [kind |-> "close", code |-> 0] =>
          /\ c.outcome = "returned"
          /\ c.metaWrite \in {"ok", "failed"}
          /\ c.unlink \in {"ok", "failed"}
          /\ c.steps = <<"download", "transcode", "meta", "unlink">>

\* C30 witness: the metadata write failed, the raw delete was attempted and
\* succeeded, and the call returned the path.
C30_Witness ==
    /\ Len(hist.calls) = 1
    /\ hist.calls[1].metaWrite = "failed" /\ hist.calls[1].unlink = "ok"
    /\ hist.calls[1].outcome = "returned"
    /\ files[safeName(hist.calls[1].inum)] =
          [wav |-> "ok", raw |-> "absent", meta |-> FALSE]

\* C31: ensureLocalWav has no per-identifier lock.  Whenever a call is in
\* flight for an identifier whose transcoded file is missing or empty, another
\* caller can enter for the same identifier and starts a download of its own;
\* every call in flight has issued its own download.
C31_NoPerKeyLock ==
    /\ \A p \in Callers : rs[p].pc \in InFlight => rs[p].downloads = 1
    /\ \A p \in Callers, q \in Callers :
         (/\ p # q
          /\ rs[q].pc \in InFlight
          /\ rs[p].pc \notin InFlight
          /\ hist.started < MaxCalls
          /\ files[safeName(rs[q].inum)].wav \in {"absent", "empty"}) =>
             ENABLED (CacheCall(p, rs[q].inum) /\ rs'[p].pc = "download"
                      /\ rs'[p].downloads = 1)

\* C31 witness: two calls for the same identifier are in flight together, each
\* after its own download and with its own transcoder started.
C31_Witness ==
    /\ rs[1].inum = InumA /\ rs[2].inum = InumA
    /\ rs[1].pc = "transcode" /\ rs[2].pc = "transcoding"
    /\ rs[1].downloads = 1 /\ rs[2].downloads = 1
    /\ rs[1].transcodes = 1 /\ rs[2].transcodes = 1

\* C34: every 206 answer that streamFile sends for a file of N >= 1 bytes names a
\* range inside the file, 0 <= start <= end <= N - 1, with a Content-Length
\* of end - start + 1 between 1 and N.
C34_PartialWithinFile ==
    (sf.pc = "done" /\ sf.total >= 1 /\ sf.res.status = 206 /\ sf.res.body = "piped") =>
        LET start == sf.res.contentRange[1]
            end == sf.res.contentRange[2]
        IN  /\ 0 <= start /\ start <= end /\ end <= sf.total - 1
            /\ sf.res.contentLength = end - start + 1
            /\ 1 <= sf.res.contentLength /\ sf.res.contentLength <= sf.total

\* C35: a /replayByUcid request attempts at most one audit row insert, on
\* every path: redirect, local file served, proxy with the local cache
\* disabled, proxy as fallback.
C35_OneInsertPerReplayByUcid ==
    (ar.pc # "idle" /\ ar.route = "replayByUcid") => Len(ar.inserts) <= 1

\* the control action registered a session of its own and got its id
CaRegisteredHere ==
    /\ ca.registers = 1
    /\ ca.registerReply \notin {NoReply, THROW}
    /\ Truthy(ca.registerReply)

\* C36: a control action registers at most once and unregisters at most
\* once.  With a session id supplied it issues no register and no unregister.
\* With none supplied and the registration succeeding, the finished handler
\* has issued exactly one unregister, whether the device answered code 0, a
\* non-zero code, or the action request threw; and it unregisters only a
\* session it registered.
C36_OneUnregisterPerRegistration ==
    /\ ca.registers <= 1 /\ ca.unregisters <= 1
    /\ (ca.pc # "idle" /\ Truthy(ca.q.clientid)) =>
          (ca.registers = 0 /\ ca.unregisters = 0)
    /\ (ca.pc = "done" /\ ~Truthy(ca.q.clientid) /\ CaRegisteredHere) =>
          (ca.unregisters = 1 /\ ca.voiceRequests = 1 /\ ca.nResponses = 1)
    /\ ca.unregisters = 1 => CaRegisteredHere

\* C36 witness: the handler registered a session, the action request threw,
\* the 500 answer was sent and the one unregister was issued.
C36_Witness ==
    /\ ca.pc = "done" /\ ~Truthy(ca.q.clientid) /\ CaRegisteredHere
    /\ ca.reply = THROW /\ ca.response.status = 500
    /\ ca.unregisters = 1

\* C37: in /startcall the outcome response has been sent when the unregister
\* request is issued, and the teardown cannot change it: from the moment the
\* request is issued the one response sent stays as it is, whether the
\* unregister succeeds, fails or times out.
C37_ResponseBeforeTeardown ==
    /\ [](issued["unregisterclient"] > 0 =>
             (nResponses = 1 /\ response.status \in {200, 500}))
    /\ [][issued["unregisterclient"] > 0 =>
             (response' = response /\ nResponses' = nResponses)]_vars
    /\ [](replies.unregister # NoReply => pc = "done")

\* C37 witness: the 200 answer was sent, the unregister request failed, and
\* the handler ended with that one answer.
C37_Witness ==
    /\ pc = "done" /\ replies.unregister = "failed"
    /\ nResponses = 1 /\ response.status = 200 /\ response.success

\* the side-channel fetch of a /startcall request with a station failed: the
\* monitor's address is not configured, or its request failed or timed out,
\* or its reply is not ok
SideChannelFailed ==
    /\ Truthy(station)
    /\ issued["makecall"] > 0
    /\ \/ ~javaBaseUrl
       \/ /\ replies.monitorSeen
          /\ (replies.monitor.kind = "error" \/ ~replies.monitor.ok)

\* C38: a failed side-channel fetch never fails the origination.  It counts
\* as no side-channel value; the call is placed and, unless placing it threw,
\* polled; and the answer is the 200 outcome that the notification channel
\* alone determines.
C38_SideChannelFailureHarmless ==
    SideChannelFailed =>
        /\ javaTask = "resolved" /\ javaValue = NULL /\ ucidFromJava = NULL
        /\ issued["makecall"] = 1
        /\ (~javaBaseUrl) => (issued["monitor"] = 0 /\ ~replies.monitorSeen)
        /\ (pc = "done" /\ ~MakecallThrew) =>
              /\ issued["nextnotification"] >= 1
              /\ issued["nextnotification"] = attempts
              /\ nResponses = 1 /\ response.status = 200
              /\ response.ucid = NotificationValue
              /\ response.success <=> Truthy(replies.voice.ObjectId)
        /\ (nResponses > 0 /\ response.status = 500) => MakecallThrew

\* C38 witness: the monitor request failed, the call was placed and polled,
\* and the successful outcome carries the notification channel's identifier.
C38_Witness ==
    /\ pc = "done" /\ SideChannelFailed /\ javaBaseUrl
    /\ replies.monitor = MonitorError
    /\ response.status = 200 /\ response.success /\ response.ucid = "u1"

\* a step in which a call of ensureLocalWav returns the path (a cache hit, or
\* the end of a miss)
ReturnsPath ==
    /\ Len(hist'.calls) = Len(hist.calls) + 1
    /\ hist'.calls[Len(hist'.calls)].outcome = "returned"

\* some call has its transcoder writing the file of that name
TranscoderWriting(rsNow, name) ==
    \E q \in Callers : rsNow[q].pc = "transcoding" /\ safeName(rsNow[q].inum) = name

\* C32: whenever ensureLocalWav returns the path, as a cache hit or after a
\* miss, the file at that path is the finished output of a transcoder that
\* exited with code 0, and no call for the same identifier has a transcoder
\* writing it.
C32_ReturnsFinishedTranscode ==
    [][ReturnsPath =>
          LET name == safeName(hist'.calls[Len(hist'.calls)].inum) IN
          /\ files'[name].wav = "ok"
          /\ ~TranscoderWriting(rs', name)]_vars

\* C33: distinct identifiers never share a cached file.  When the first call
\* to end resolved a miss (it downloaded and transcoded the recording of its
\* identifier) and the second call to end was answered from the cache, the
\* second call asked for the same identifier; and safeName gives distinct
\* identifiers distinct names.
C33_DistinctIdsDistinctFiles ==
    (/\ Len(hist.calls) >= 2
     /\ ResolvedMiss(hist.calls[1])
     /\ hist.calls[2].outcome = "returned"
     /\ SawNonEmptyWav(hist.calls[2])) =>
        /\ hist.calls[2].inum = hist.calls[1].inum
        /\ \A i \in Inums, j \in Inums : safeName(i) = safeName(j) => i = j

\* a /replayByUcid request whose ensureLocalWav call threw
LocalPathFailed == ar.route = "replayByUcid" /\ rs[1].pc = "threw"

\* C25 as stated: when ensureLocalWav fails during /replayByUcid the requester
\* is answered with the upstream error response.
C25_LocalFailureSurfaced ==
    (LocalPathFailed /\ ar.nResponses > 0) =>
        (ar.response.kind = "error" /\ ar.response.status = 502)

\* C25 amended: when ensureLocalWav fails during /replayByUcid nothing is
\* answered until the request has been proxied to the archive once; the answer
\* is then the archive's proxied response with the archive's status, and the
\* upstream error (502) only when the proxied request itself threw.
C25_LocalFailureFallsBack ==
    LocalPathFailed =>
        /\ ar.pc = "resolve" => (ar.nResponses = 0 /\ ar.proxies = 0)
        /\ ar.pc = "proxy" => (ar.nResponses = 0 /\ ar.proxies = 1)
        /\ ar.nResponses > 0 =>
              /\ ar.nResponses = 1 /\ ar.proxies = 1
              /\ \/ ar.response.kind = "proxy" /\ ar.response.status \in ProxyStatuses
                 \/ ar.response.kind = "error" /\ ar.response.status = 502

\* C25 witness: the transcoder failed, the request was proxied and the
\* requester got the archive's 200.
C25_Witness ==
    /\ LocalPathFailed /\ ar.pc = "done"
    /\ Len(hist.calls) = 1 /\ hist.calls[1].exit = [kind |-> "close", code |-> 1]
    /\ ar.response.kind = "proxy" /\ ar.response.status = 200

---------------------------------------------------------------------------
(* Claims about the sweep *)

\* the names of the model that end in .wav, .json or .raw.bin, in any case
CacheFileNames ==
    {<<"a", ".", "w", "a", "v">>, <<"b", ".", "W", "A", "V">>,
     <<"a", ".", "j", "s", "o", "n">>, <<"a", ".", "r", "a", "w", ".", "b", "i", "n">>}

\* C22: a run of cleanupOldMedia that could list the directory removes every
\* cache file (.wav, .json, .raw.bin) modified strictly before now minus the
\* retention, unless the stat or unlink of that file failed, and leaves every
\* cache file modified at or after that time, and every file with another
\* extension, as it was.
C22_SweepRemovesOld ==
    (sw.pc = "done" /\ ~sw.readdirFailed) =>
        \A n \in DirNames :
           LET was == sw.before[n]
               old == was.mtimeMs < sw.now - 72 * 3600 * 1000
           IN  /\ (was.present /\ n \in CacheFileNames /\ old /\ n # sw.failing) =>
                     ~sw.dir[n].present
               /\ (was.present /\ n \in CacheFileNames /\ ~old) => sw.dir[n] = was
               /\ n \notin CacheFileNames => sw.dir[n] = was
               /\ ~was.present => ~sw.dir[n].present

\* C22 witness: an old .wav was removed, a .json modified exactly at the cutoff
\* and an old file with another extension were kept.
C22_Witness ==
    /\ sw.pc = "done" /\ sw.failing = NoName /\ sw.removed = 1
    /\ sw.before[<<"a", ".", "w", "a", "v">>] =
          [present |-> TRUE, mtimeMs |-> sw.now - RetentionMs - 1]
    /\ ~sw.dir[<<"a", ".", "w", "a", "v">>].present
    /\ sw.dir[<<"a", ".", "j", "s", "o", "n">>] =
          [present |-> TRUE, mtimeMs |-> sw.now - RetentionMs]
    /\ sw.dir[<<"a", ".", "b", "i", "n">>] =
          [present |-> TRUE, mtimeMs |-> sw.now - RetentionMs - 1]

---------------------------------------------------------------------------
(* Claims about streamFile *)

\* the decimal numeral of a natural number
RECURSIVE Numeral(_)
Numeral(n) ==
    IF n < 10 THEN <<CHOOSE c \in {"0", "1", "2", "3", "4", "5", "6", "7", "8", "9"} :
                        DigitVal(c) = n>>
    ELSE Numeral(n \div 10) \o Numeral(n % 10)

\* the offsets a Range header of the model can name
Offsets == 0..12

\* the header 'bytes=s-e' and the header 'bytes=s-'
ClosedRange(s, e) == Given(BytesEq \o Numeral(s) \o <<"-">> \o Numeral(e))
OpenRange(s) == Given(BytesEq \o Numeral(s) \o <<"-">>)

\* C23: streamFile on a file of size N answers a request without a Range
\* header with 200 and Content-Length N; a request with 'bytes=s-e' (s not
\* after e) with 206, Content-Range 'bytes s-e/N' and Content-Length e-s+1; and
\* in a request with 'bytes=s-' the end is N-1.
C23_RangeResponses ==
    sf.pc = "done" =>
        /\ ~sf.range.given =>
              sf.res = [status |-> 200, contentRange |-> << >>,
                        contentLength |-> sf.total, body |-> "piped"]
        /\ \A s \in Offsets, e \in Offsets :
              (s <= e /\ sf.range = ClosedRange(s, e)) =>
                 sf.res = [status |-> 206, contentRange |-> <<s, e, sf.total>>,
                           contentLength |-> e - s + 1, body |-> "piped"]
        /\ \A s \in Offsets :
              sf.range = OpenRange(s) =>
                 /\ sf.res.status = 206
                 /\ sf.res.contentRange = <<s, sf.total - 1, sf.total>>
                 /\ sf.res.contentLength = sf.total - s
                 /\ s < sf.total => sf.res.body = "piped"

\* C23 witness: 'bytes=1-3' on a file of 3 bytes is answered 206 with
\* Content-Range 1-3/3 and Content-Length 3.
C23_Witness ==
    /\ sf.pc = "done" /\ sf.total = 3 /\ sf.range = ClosedRange(1, 3)
    /\ sf.res.status = 206 /\ sf.res.contentLength = 3

\* a header of the form bytes=start-end: a start of one or more digits, an end
\* of digits or none, and no end before the start
AllDigits(str) == \A i \in DOMAIN str : IsDigit(str[i])
WellFormedRange(str) ==
    /\ Len(str) > Len(BytesEq)
    /\ SubSeq(str, 1, Len(BytesEq)) = BytesEq
    /\ \E i \in (Len(BytesEq) + 2)..Len(str) :
         LET start == SubSeq(str, Len(BytesEq) + 1, i - 1)
             end == SubSeq(str, i + 1, Len(str))
         IN  /\ str[i] = "-"
             /\ AllDigits(start) /\ AllDigits(end)
             /\ end # << >> => DigitsVal(start) <= DigitsVal(end)

\* C24 as stated: streamFile answers a request whose Range header is not of
\* the form bytes=start-end with a start (a suffix range, a bound that is not
\* a number, an end before the start) as it answers one without the header:
\* 200 with the full content.
C24_MalformedAsAbsent ==
    (sf.pc = "done" /\ sf.range.given /\ ~WellFormedRange(sf.range.s)) =>
        sf.res = [status |-> 200, contentRange |-> << >>,
                  contentLength |-> sf.total, body |-> "piped"]

---------------------------------------------------------------------------
(* Claims about the audit writes, over all the endpoints *)

\* an audit insert has been started and has not settled
ScInsertPending == issued["callLogInsert"] > 0 /\ replies.calllog = NoReply
CaInsertPending == Len(ca.logs) > 0 /\ ca.logOutcome = NoReply
AcrInsertPending == ar.pc # "idle" /\ PendingInserts(ar) # {}

\* the archive handler is suspended on the download, the transcoder or the
\* proxied request
AcrAwaitsArchive == ar.pc \in {"resolve", "proxy"}

\* C12 as stated: on every response path the response does not wait for the
\* audit insert: while an insert of /startcall, of a control action or of an
\* archive endpoint is pending, the response has been sent or can be sent.
C12_ResponseNeverWaits ==
    /\ ScInsertPending => (nResponses > 0 \/ ENABLED Respond)
    /\ CaInsertPending => (ca.nResponses > 0 \/ ENABLED CaRespond)
    /\ AcrInsertPending => (ar.nResponses > 0 \/ AcrAwaitsArchive)

\* C12 amended: only the archive endpoints write fire-and-forget.  /find and
\* /searchByNumber respond while every insert they started is pending, and
\* /replayByUcid never waits for its inserts; /startcall and the control actions
\* await their insert, so their response is sent only after it has settled.
C12_OnlyArchiveFireAndForget ==
    /\ ScInsertPending => (nResponses = 0 /\ ~ENABLED Respond)
    /\ CaInsertPending => (ca.nResponses = 0 /\ ~ENABLED CaRespond)
    /\ AcrInsertPending => (ar.nResponses > 0 \/ AcrAwaitsArchive)
    /\ (ar.pc # "idle" /\ ar.nResponses > 0) =>
          /\ ar.route \in {"find", "searchByNumber"} => ar.unsettled = Len(ar.inserts)
          /\ ar.response.kind = "redirect" => ar.unsettled = 1

\* C12 witness: /find has answered 200 and its audit insert is still pending.
C12_Witness ==
    /\ ar.pc = "done" /\ ar.route = "find" /\ ar.response.status = 200
    /\ Len(ar.inserts) = 1 /\ ar.inserts[1].state = "pending"

\* C13: a failure of the audit insert never changes the response: whenever
\* an insert has settled, failed or not, the response is the one the remote
\* answers alone determine.
C13_AuditFailureInvisible ==
    /\ (replies.calllog # NoReply /\ nResponses > 0) =>
          /\ response.status = 200
          /\ response.success <=> Truthy(interactionId)
          /\ response.ucid = ucid
    /\ (ca.logOutcome # NoReply /\ ca.nResponses > 0) =>
          /\ ca.reply \in {THROW, NoReply} => ca.response = CaErrorResponse
          /\ ca.reply = "0" => (ca.response.status = 200 /\ ca.response.success)
          /\ ca.reply \notin {THROW, NoReply, "0"} =>
                (ca.response.status = 502 /\ ca.response.code = ca.reply)
    /\ (ar.pc = "done" /\ ar.inserts # << >>) =>
          /\ ar.route = "find" =>
                (ar.response.status = 200 /\ ar.response.found = Len(ar.results))
          /\ ar.route = "searchByNumber" =>
                (ar.response.status = 200 /\ ar.response.found = Cardinality(IdRecords))
          /\ ar.route = "replayByUcid" =>
                /\ WantsRedirect(ar.redirect) => ar.response.status = 302
                /\ (~WantsRedirect(ar.redirect) /\ rs[1].pc = "returned") =>
                      (ar.response.status = 200 /\ ar.response.kind = "wav")
                /\ ar.response.kind \in {"proxy", "error"} => ar.proxies = 1

\* C13 witness: the call-log insert of /startcall failed and the response is
\* the 200 outcome record.
C13_Witness ==
    /\ replies.calllog = "failed" /\ nResponses = 1
    /\ response.status = 200 /\ response.success

====
